---- MODULE Spec2Model ----
(***************************************************************************)
(* Grid search engine of terrain-pathfinding: the bridging A* pathfinder   *)
(* (src/util/grid2DUtil.ts), the binary min-heap it uses (src/util/util.ts)*)
(* the prioritized space-time planner of MultiAgent.tsx and the spanning   *)
(* tree builder of grid2DUtil.ts with the MSTRoads.tsx component.          *)
(*                                                                         *)
(* A cell is a pair <<x, y>>.  A grid is a record [w, h, walk]: its width, *)
(* its height and the set of its walkable cells (tile.walkable, which      *)
(* generatePerlinMap sets to tileType === "Grass").                        *)
(***************************************************************************)
EXTENDS Integers, Sequences, FiniteSets, TLC

VARIABLES
    map,            \* the grid every component searches
    start,          \* findPathAStar: argument start
    end,            \* findPathAStar: argument end
    bridgeSteps,    \* findPathAStar: argument bridgeSteps
    bridgeCost,     \* findPathAStar: argument bridgeCost; MSTRoads: the bridgeCost state
    search,         \* findPathAStar: locals (nodes, openSet, nodeMap, closedSet) and result
    prevCost,       \* cost of the path the previous call (budget bridgeSteps - 1) returned
    agents,         \* MultiAgent: the agents state (id, start, goal, path)
    selectingAgents,    \* MultiAgent: null or {mode, agentId}
    planned,        \* MultiAgent: the planned flag
    planningFailedFor,  \* MultiAgent: ids of the agents that failed to plan
    play,           \* play(): where it stands and its locals plannedPaths, failed, reservations
    planLog,        \* what planning returned for each agent of the running play(), in order
    crashed,        \* MultiAgent: an effect or a render threw
    points,         \* MSTRoads: the points the user placed, in order
    disconnectedPoints, \* MSTRoads: the points reported as not connected
    allMstTiles,    \* MSTRoads: the tiles of the tree, flattened
    mstAttempted,   \* MSTRoads: a tree has been computed
    bridgeAllowance,    \* MSTRoads: the bridgeAllowance state
    heap,           \* MinHeap: the data array of a heap used on its own
    held,           \* the {priority, item} pushed to heap and not yet popped
    lastPop         \* the last pop() of heap: what it returned, and held before it

astarVars == <<start, end, bridgeSteps, bridgeCost, search, prevCost>>

agentVars == <<agents, selectingAgents, planned, planningFailedFor, play, planLog, crashed>>

mstVars == <<points, disconnectedPoints, allMstTiles, mstAttempted, bridgeAllowance>>

heapVars == <<heap, held, lastPop>>

vars == <<map, astarVars, agentVars, mstVars, heapVars>>

----------------------------------------------------------------------------
(* Bounds of the model *)

GridW == 3
GridH == 3
MaxBridge == 2
OpenSize == 5
MapW == 2
MapH == 2
MaxAgents == 3
MstW == 2
MstH == 3
MaxPoints == 4

BridgeCosts == {0, 1, 2, 5}

----------------------------------------------------------------------------
(* Values of the variables of a component that is not mounted *)

NoPoint == <<>>

NoSelection == [mode |-> "none", agentId |-> 0]

NoPlay == [pc |-> "idle", i |-> 0, plannedPaths |-> <<>>, failed |-> <<>>,
           reservations |-> [vertex |-> <<>>, edge |-> <<>>]]

NoAgents ==
    /\ agents = <<>>
    /\ selectingAgents = NoSelection
    /\ planned = FALSE
    /\ planningFailedFor = <<>>
    /\ play = NoPlay
    /\ planLog = <<>>
    /\ crashed = FALSE

NoMst ==
    /\ points = <<>>
    /\ disconnectedPoints = <<>>
    /\ allMstTiles = <<>>
    /\ mstAttempted = FALSE
    /\ bridgeAllowance = 0

\* pop() of an empty heap returns undefined
Undefined == 0

NoPop == [called |-> FALSE, ret |-> Undefined, from |-> {}]

NoHeap ==
    /\ heap = <<>>
    /\ held = {}
    /\ lastPop = NoPop

NoSearch ==
    /\ start = NoPoint
    /\ end = NoPoint
    /\ bridgeSteps = 0
    /\ bridgeCost = 0
    /\ search = [status |-> "none"]
    /\ prevCost = 0

----------------------------------------------------------------------------
(* Grids *)

CellsOf(w, h) == (0 .. w - 1) \X (0 .. h - 1)

AllGrids(w, h) == { [w |-> w, h |-> h, walk |-> s] : s \in SUBSET CellsOf(w, h) }

OpenGrid(w, h) == [w |-> w, h |-> h, walk |-> CellsOf(w, h)]

Abs(n) == IF n < 0 THEN -n ELSE n

manhatten(x1, x2, y1, y2) == Abs(x1 - x2) + Abs(y1 - y2)

----------------------------------------------------------------------------
(* MinHeap: data is the array of {priority, item}; index i of the code is   *)
(* position i + 1 of the sequence.                                          *)

At(data, i) == data[i + 1]

Put(data, i, e) == [data EXCEPT ![i + 1] = e]

RECURSIVE BubbleUpFrom(_, _)
BubbleUpFrom(data, idx) ==
    IF idx <= 0 THEN data
    ELSE LET parentIdx == (idx - 1) \div 2
             element == At(data, idx)
             parent == At(data, parentIdx)
         IN IF element.priority >= parent.priority THEN data
            ELSE BubbleUpFrom(Put(Put(data, idx, parent), parentIdx, element), parentIdx)

\* the pushed element stays at the end of the array
bubbleUpSkipped(data) == data

bubbleUp(data) == BubbleUpFrom(data, Len(data) - 1)

RECURSIVE BubbleDownFrom(_, _)
BubbleDownFrom(data, idx) ==
    LET length == Len(data)
        element == At(data, idx)
        leftIdx == 2 * idx + 1
        rightIdx == 2 * idx + 2
        swapL == IF leftIdx < length /\ At(data, leftIdx).priority < element.priority
                 THEN leftIdx ELSE -1
        swapIdx == IF rightIdx < length
                      /\ At(data, rightIdx).priority <
                           (IF swapL = -1 THEN element.priority
                            ELSE At(data, leftIdx).priority)
                   THEN rightIdx ELSE swapL
    IN IF swapIdx = -1 THEN data
       ELSE BubbleDownFrom(Put(Put(data, idx, At(data, swapIdx)), swapIdx, element), swapIdx)

bubbleDownSkipped(data) == data

bubbleDown(data) == BubbleDownFrom(data, 0)

HeapPush(data, item, priority) ==
    bubbleUp(Append(data, [priority |-> priority, item |-> item]))

\* the array pop() leaves behind; the item it returns is HeapMin
HeapPop(data) ==
    IF Len(data) = 0 THEN data
    ELSE LET last == data[Len(data)]
             rest == SubSeq(data, 1, Len(data) - 1)
         IN IF Len(rest) > 0 THEN bubbleDown(Put(rest, 0, last)) ELSE rest

HeapMin(data) == data[1].item

HeapIsEmpty(data) == Len(data) = 0

----------------------------------------------------------------------------
(* findPathAStar (bridging).  A search state s is the record of the locals: *)
(* nodes is the arena of every NodeAStar object created (a node's parent is *)
(* the arena index of the object it points to, 0 for none), openSet the     *)
(* heap's array of {priority, item: arena index}, nodeMap the Map from keys *)
(* to nodes, closedSet the Set of keys.  status is "running" inside the     *)
(* while loop and "done" after a return; found/path are the value returned  *)
(* (found = FALSE is null).                                                 *)

makeKey(x, y, b) == <<x, y, b>>

InBounds(grid, x, y) == ~(x < 0 \/ x >= grid.w \/ y < 0 \/ y >= grid.h)

Walkable(grid, x, y) == <<x, y>> \in grid.walk

AStarStart(grid, st, en) ==
    LET heuristic == manhatten(st[1], en[1], st[2], en[2])
        startNode == [x |-> st[1], y |-> st[2], g |-> 0, h |-> heuristic,
                      f |-> heuristic, parent |-> 0, bridgesUsed |-> 0]
    IN [nodes |-> <<startNode>>,
        openSet |-> HeapPush(<<>>, 1, startNode.f),
        nodeMap |-> (makeKey(startNode.x, startNode.y, 0) :> 1),
        closedSet |-> {},
        status |-> "running",
        found |-> FALSE,
        path |-> <<>>]

\* "while (node) { path.unshift(...); node = node.parent }"
RECURSIVE ReconstructPathNoStart(_, _)
ReconstructPathNoStart(nodes, idx) ==
    IF nodes[idx].parent = 0 THEN <<>>
    ELSE Append(ReconstructPathNoStart(nodes, nodes[idx].parent),
                <<nodes[idx].x, nodes[idx].y>>)

RECURSIVE ReconstructPath(_, _)
ReconstructPath(nodes, idx) ==
    IF idx = 0 THEN <<>>
    ELSE Append(ReconstructPath(nodes, nodes[idx].parent), <<nodes[idx].x, nodes[idx].y>>)

Neighbors(x, y) == << <<x + 1, y>>, <<x - 1, y>>, <<x, y + 1>>, <<x, y - 1>> >>

\* "if (nextBridgesUsed > bridgeSteps) continue"
OverAllowanceLoose(nextBridgesUsed, bSteps) == nextBridgesUsed > bSteps + 1

OverAllowanceOffByOne(nextBridgesUsed, bSteps) == nextBridgesUsed >= bSteps

OverAllowance(nextBridgesUsed, bSteps) == nextBridgesUsed > bSteps

\* "isWalkable ? 1 : bridgeCost"
StepCostFlat(isWalkable, bCost) == 1

StepCostNone(isWalkable, bCost) == 0

StepCost(isWalkable, bCost) == IF isWalkable THEN 1 ELSE bCost

\* "!existing || g < existing.g"
Improves(s, neighborKey, g) ==
    \/ neighborKey \notin DOMAIN s.nodeMap
    \/ g < s.nodes[s.nodeMap[neighborKey]].g

\* one pass of the body of "for (const { x, y } of neighbors)"
Relax(grid, en, bSteps, bCost, s, curIdx, nb) ==
    LET current == s.nodes[curIdx]
        x == nb[1]
        y == nb[2]
        isWalkable == Walkable(grid, x, y)
        nextBridgesUsed == IF isWalkable THEN current.bridgesUsed ELSE current.bridgesUsed + 1
        neighborKey == makeKey(x, y, nextBridgesUsed)
        stepCost == StepCost(isWalkable, bCost)
        g == current.g + stepCost
        h == manhatten(x, en[1], y, en[2])
        f == g + h
        neighborNode == [x |-> x, y |-> y, g |-> g, h |-> h, f |-> f,
                         parent |-> curIdx, bridgesUsed |-> nextBridgesUsed]
        newIdx == Len(s.nodes) + 1
    IN IF ~InBounds(grid, x, y) THEN s
       ELSE IF OverAllowance(nextBridgesUsed, bSteps) THEN s
       ELSE IF neighborKey \in s.closedSet THEN s
       ELSE IF Improves(s, neighborKey, g)
            THEN [s EXCEPT !.nodes = Append(@, neighborNode),
                           !.nodeMap = (neighborKey :> newIdx) @@ @,
                           !.openSet = HeapPush(@, newIdx, f)]
            ELSE s

RECURSIVE RelaxAll(_, _, _, _, _, _, _, _)
RelaxAll(grid, en, bSteps, bCost, s, curIdx, nbs, i) ==
    IF i > Len(nbs) THEN s
    ELSE RelaxAll(grid, en, bSteps, bCost,
                  Relax(grid, en, bSteps, bCost, s, curIdx, nbs[i]), curIdx, nbs, i + 1)

\* what the next pass of the while loop does: "empty" leaves the loop and
\* returns null, "closed" takes the continue, "goal" returns the path,
\* "expand" explores the neighbours
LoopCase(en, s) ==
    IF HeapIsEmpty(s.openSet) THEN "empty"
    ELSE LET current == s.nodes[HeapMin(s.openSet)]
         IN IF makeKey(current.x, current.y, current.bridgesUsed) \in s.closedSet THEN "closed"
            ELSE IF current.x = en[1] /\ current.y = en[2] THEN "goal"
            ELSE "expand"

\* one pass of "while (!openSet.isEmpty())", or the return null after it
AStarLoop(grid, en, bSteps, bCost, s) ==
    IF HeapIsEmpty(s.openSet)
    THEN [s EXCEPT !.status = "done", !.found = FALSE]
    ELSE LET curIdx == HeapMin(s.openSet)
             current == s.nodes[curIdx]
             currentKey == makeKey(current.x, current.y, current.bridgesUsed)
             popped == [s EXCEPT !.openSet = HeapPop(@)]
             closed == [popped EXCEPT !.closedSet = @ \cup {currentKey}]
         IN IF currentKey \in s.closedSet THEN popped
            ELSE IF current.x = en[1] /\ current.y = en[2]
            THEN [closed EXCEPT !.status = "done", !.found = TRUE,
                                !.path = ReconstructPath(s.nodes, curIdx)]
            ELSE RelaxAll(grid, en, bSteps, bCost, closed, curIdx,
                          Neighbors(current.x, current.y), 1)

RECURSIVE AStarRun(_, _, _, _, _)
AStarRun(grid, en, bSteps, bCost, s) ==
    IF s.status = "done" THEN s
    ELSE AStarRun(grid, en, bSteps, bCost, AStarLoop(grid, en, bSteps, bCost, s))

\* the value findPathAStar returns: [found, path], found = FALSE for null
findPathAStar(grid, st, en, bSteps, bCost) ==
    LET s == AStarRun(grid, en, bSteps, bCost, AStarStart(grid, st, en))
    IN [found |-> s.found, path |-> s.path]

\* total cost of a path: 1 per step onto a walkable cell, bCost per step onto
\* a non-walkable one
RECURSIVE PathCostFrom(_, _, _, _)
PathCostFrom(grid, bCost, path, i) ==
    IF i > Len(path) THEN 0
    ELSE (IF path[i] \in grid.walk THEN 1 ELSE bCost) + PathCostFrom(grid, bCost, path, i + 1)

PathCost(grid, bCost, path) == PathCostFrom(grid, bCost, path, 2)

NoCost == 0 - 1

----------------------------------------------------------------------------
(* Calls of findPathAStar, one pass of its loop at a time *)

\* two grids outside the GridW x GridH family:
\*   BridgeGrid   . . . X      MazeGrid   . X . .
\*                . X X X                 . . X X
\*                . . . .                 . X X .
BridgeGrid ==
    [w |-> 4, h |-> 3,
     walk |-> CellsOf(4, 3) \ { <<1, 1>>, <<2, 1>>, <<3, 0>>, <<3, 1>> }]

MazeGrid ==
    [w |-> 4, h |-> 3,
     walk |-> CellsOf(4, 3) \ { <<1, 0>>, <<1, 2>>, <<2, 1>>, <<2, 2>>, <<3, 1>> }]

AStarGrids ==
    AllGrids(GridW, GridH) \cup {OpenGrid(OpenSize, OpenSize), BridgeGrid, MazeGrid}

InitAStar ==
    /\ map \in AStarGrids
    /\ start \in map.walk
    /\ end \in map.walk
    /\ bridgeSteps \in 0 .. MaxBridge
    /\ bridgeCost \in BridgeCosts
    /\ search = AStarStart(map, start, end)
    /\ prevCost = NoCost
    /\ NoAgents
    /\ NoMst
    /\ NoHeap

\* the open set is empty: the loop ends and findPathAStar returns null
OpenExhausted ==
    /\ search.status = "running"
    /\ LoopCase(end, search) = "empty"
    /\ search' = AStarLoop(map, end, bridgeSteps, bridgeCost, search)
    /\ UNCHANGED <<heapVars, map, start, end, bridgeSteps, bridgeCost, prevCost, agentVars, mstVars>>

\* the popped node's key is already closed: continue
SkipClosed ==
    /\ search.status = "running"
    /\ LoopCase(end, search) = "closed"
    /\ search' = AStarLoop(map, end, bridgeSteps, bridgeCost, search)
    /\ UNCHANGED <<heapVars, map, start, end, bridgeSteps, bridgeCost, prevCost, agentVars, mstVars>>

\* the popped node is at end: findPathAStar returns the reconstructed path
GoalReached ==
    /\ search.status = "running"
    /\ LoopCase(end, search) = "goal"
    /\ search' = AStarLoop(map, end, bridgeSteps, bridgeCost, search)
    /\ UNCHANGED <<heapVars, map, start, end, bridgeSteps, bridgeCost, prevCost, agentVars, mstVars>>

\* the popped node is closed and its four neighbours are explored
ExpandNode ==
    /\ search.status = "running"
    /\ LoopCase(end, search) = "expand"
    /\ search' = AStarLoop(map, end, bridgeSteps, bridgeCost, search)
    /\ UNCHANGED <<heapVars, map, start, end, bridgeSteps, bridgeCost, prevCost, agentVars, mstVars>>

\* the caller searches the same pair again with the budget raised by one
RaiseBudget ==
    /\ search.status = "done"
    /\ prevCost = NoCost
    /\ bridgeSteps < MaxBridge
    /\ bridgeSteps' = bridgeSteps + 1
    /\ prevCost' = IF search.found THEN PathCost(map, bridgeCost, search.path) ELSE NoCost
    /\ search' = AStarStart(map, start, end)
    /\ UNCHANGED <<heapVars, map, start, end, bridgeCost, agentVars, mstVars>>

NextAStar == OpenExhausted \/ SkipClosed \/ GoalReached \/ ExpandNode \/ RaiseBudget

SpecAStar == InitAStar /\ [][NextAStar]_vars

----------------------------------------------------------------------------
(* Reference values, computed without the search: the states <<cell, bridges *)
(* used>> are settled level by level in order of cost.                      *)

Adjacent(grid, c) ==
    { <<c[1] + 1, c[2]>>, <<c[1] - 1, c[2]>>, <<c[1], c[2] + 1>>, <<c[1], c[2] - 1>> }
        \cap CellsOf(grid.w, grid.h)

\* states one step onto a walkable cell away from a state of S
WalkFrom(grid, S) ==
    UNION { { <<q, s[2]>> : q \in Adjacent(grid, s[1]) \cap grid.walk } : s \in S }

\* states one step onto a non-walkable cell away from a state of S, in budget
BridgeFrom(grid, bSteps, S) ==
    UNION { { <<q, s[2] + 1>> : q \in Adjacent(grid, s[1]) \ grid.walk } :
              s \in { t \in S : t[2] + 1 <= bSteps } }

\* S with everything reachable from it by steps of cost zero (bCost = 0)
RECURSIVE FreeClosure(_, _, _, _, _)
FreeClosure(grid, bSteps, bCost, S, seen) ==
    IF bCost # 0 THEN S
    ELSE LET more == BridgeFrom(grid, bSteps, S) \ (S \cup seen)
         IN IF more = {} THEN S ELSE FreeClosure(grid, bSteps, bCost, S \cup more, seen)

\* levels[i] is the set of states whose least cost is i - 1; c is the next cost
RECURSIVE LevelCost(_, _, _, _, _, _, _)
LevelCost(grid, en, bSteps, bCost, levels, seen, c) ==
    LET walk == IF c >= 1 THEN WalkFrom(grid, levels[c]) ELSE {}
        bridge == IF bCost >= 1 /\ c >= bCost
                  THEN BridgeFrom(grid, bSteps, levels[c - bCost + 1]) ELSE {}
        level == FreeClosure(grid, bSteps, bCost, (walk \cup bridge) \ seen, seen)
        window == IF bCost >= 1 THEN bCost ELSE 1
        stalled == /\ level = {}
                   /\ \A i \in 1 .. window - 1 : c - i >= 0 => levels[c - i + 1] = {}
    IN IF \E b \in 0 .. bSteps : <<en, b>> \in level THEN c
       ELSE IF stalled THEN NoCost
       ELSE LevelCost(grid, en, bSteps, bCost, Append(levels, level), seen \cup level, c + 1)

\* least total cost of a 4-connected route from st to en that steps onto at
\* most bSteps non-walkable cells; NoCost when there is none
OptCost(grid, st, en, bSteps, bCost) ==
    LET first == FreeClosure(grid, bSteps, bCost, { <<st, 0>> }, {})
    IN IF \E b \in 0 .. bSteps : <<en, b>> \in first THEN 0
       ELSE LevelCost(grid, en, bSteps, bCost, <<first>>, first, 1)

\* cells reached from S by steps onto walkable cells only
RECURSIVE WalkClosure(_, _)
WalkClosure(grid, S) ==
    LET more == (UNION { Adjacent(grid, c) : c \in S } \cap grid.walk) \ S
    IN IF more = {} THEN S ELSE WalkClosure(grid, S \cup more)

\* cells reached from st by routes that step onto at most b non-walkable cells
RECURSIVE ReachWithin(_, _, _)
ReachWithin(grid, st, b) ==
    IF b = 0 THEN WalkClosure(grid, {st})
    ELSE LET inner == ReachWithin(grid, st, b - 1)
         IN WalkClosure(grid, inner \cup UNION { Adjacent(grid, c) : c \in inner })

\* path is a 4-connected route of the grid from st to en
IsRoute(grid, path, st, en) ==
    /\ Len(path) >= 1
    /\ path[1] = st
    /\ path[Len(path)] = en
    /\ \A i \in 1 .. Len(path) : path[i] \in CellsOf(grid.w, grid.h)
    /\ \A i \in 1 .. Len(path) - 1 :
         Abs(path[i][1] - path[i + 1][1]) + Abs(path[i][2] - path[i + 1][2]) = 1

\* number of steps of path onto non-walkable cells
BridgesOn(grid, path) == Cardinality({ i \in 2 .. Len(path) : path[i] \notin grid.walk })

Done == search.status = "done"

\* the non-walkable cells are exactly one full column or one full row, with st
\* and en on opposite sides of it
SolidWall(grid, st, en) ==
    LET cells == CellsOf(grid.w, grid.h)
    IN \/ \E k \in 0 .. grid.w - 1 :
            /\ grid.walk = { c \in cells : c[1] # k }
            /\ (st[1] - k) * (en[1] - k) < 0
       \/ \E k \in 0 .. grid.h - 1 :
            /\ grid.walk = { c \in cells : c[2] # k }
            /\ (st[2] - k) * (en[2] - k) < 0

IsOpen(grid) == grid.walk = CellsOf(grid.w, grid.h)

\* x + y never decreases, or never increases, along the path
MonotoneSum(path) ==
    \/ \A i \in 1 .. Len(path) - 1 : path[i][1] + path[i][2] <= path[i + 1][1] + path[i + 1][2]
    \/ \A i \in 1 .. Len(path) - 1 : path[i][1] + path[i][2] >= path[i + 1][1] + path[i + 1][2]

ShortestWithoutBridging ==
    LET d == OptCost(map, start, end, 0, bridgeCost)
    IN d # NoCost =>
         /\ search.found
         /\ IsRoute(map, search.path, start, end)
         /\ BridgesOn(map, search.path) = 0
         /\ Len(search.path) - 1 = d

\* C3 as stated: with bridgeSteps = 0 findPathAStar returns, for every pair
\* joined by a walkable route, a path with the true shortest number of steps;
\* on an all-walkable grid the path has Manhattan distance + 1 cells and x + y
\* changes monotonically along it.
C3_Stated ==
    (Done /\ bridgeSteps = 0) =>
        /\ ShortestWithoutBridging
        /\ IsOpen(map) =>
             /\ Len(search.path) = Abs(start[1] - end[1]) + Abs(start[2] - end[2]) + 1
             /\ MonotoneSum(search.path)

\* C3 amended: as C3, with x + y monotone along the path on an all-walkable
\* grid when end.x - start.x and end.y - start.y do not have opposite signs
\* (as from (0,0) to (4,4)).
C3_ShortestPath ==
    (Done /\ bridgeSteps = 0) =>
        /\ ShortestWithoutBridging
        /\ IsOpen(map) =>
             /\ Len(search.path) = Abs(start[1] - end[1]) + Abs(start[2] - end[2]) + 1
             /\ (end[1] - start[1]) * (end[2] - start[2]) >= 0 => MonotoneSum(search.path)

\* a search without bridging that had to go round non-walkable cells
C3_Witness ==
    /\ Done
    /\ bridgeSteps = 0
    /\ search.found
    /\ Len(search.path) > Abs(start[1] - end[1]) + Abs(start[2] - end[2]) + 1

\* C4: for bridgeCost >= 1 findPathAStar returns a path of minimum total cost
\* among the routes that step onto at most bridgeSteps non-walkable cells (and
\* null when there is none); across a solid one-cell wall with bridgeSteps = 1
\* and bridgeCost = 5 the path costs its walkable steps plus 5.
C4_MinimumCost ==
    (Done /\ bridgeCost >= 1) =>
        LET opt == OptCost(map, start, end, bridgeSteps, bridgeCost)
        IN /\ search.found <=> opt # NoCost
           /\ search.found =>
                /\ IsRoute(map, search.path, start, end)
                /\ BridgesOn(map, search.path) <= bridgeSteps
                /\ PathCost(map, bridgeCost, search.path) = opt
           /\ (SolidWall(map, start, end) /\ bridgeSteps = 1 /\ bridgeCost = 5) =>
                /\ search.found
                /\ PathCost(map, bridgeCost, search.path) = (Len(search.path) - 2) + 5

\* a path across a solid wall, one bridge at cost 5
C4_Witness ==
    /\ Done
    /\ SolidWall(map, start, end)
    /\ bridgeSteps = 1
    /\ bridgeCost = 5
    /\ search.found
    /\ BridgesOn(map, search.path) = 1

\* C5: when findPathAStar returns a path with budget k and with budget k + 1,
\* the path of budget k + 1 costs no more than the path of budget k
\* (prevCost is the cost returned with budget bridgeSteps - 1).
C5_BudgetMonotone ==
    (Done /\ prevCost # NoCost /\ search.found) =>
        PathCost(map, bridgeCost, search.path) <= prevCost

\* the loop's variant: keys not yet closed, then entries in the open set
AllKeys == CellsOf(map.w, map.h) \X (0 .. bridgeSteps)

LoopVariant(s) ==
    (Cardinality(AllKeys) - Cardinality(s.closedSet)) * (4 * Cardinality(AllKeys) + 2)
        + Len(s.openSet)

ReturnsNullIffNoRoute ==
    Done => (~search.found <=> end \notin ReachWithin(map, start, bridgeSteps))

LoopDescends ==
    (search.status = "running" /\ search'.status = "running") =>
        /\ LoopVariant(search') < LoopVariant(search)
        /\ LoopVariant(search') >= 0

\* C10: findPathAStar terminates (every pass of its loop lowers a variant that
\* is never negative) and returns null exactly when no 4-connected route from
\* start to end steps onto at most bridgeSteps non-walkable cells.
C10_NullIffUnreachable == [](ReturnsNullIffNoRoute) /\ [][LoopDescends]_vars

\* a solid wall between start and end, no bridging: null
C10_Witness ==
    /\ Done
    /\ SolidWall(map, start, end)
    /\ bridgeSteps = 0
    /\ ~search.found

----------------------------------------------------------------------------
(* MultiAgent.tsx: reservation tables.  vertex and edge are the two Maps:   *)
(* functions whose domain is the set of timesteps that have a record.       *)

keyXY(x, y) == <<x, y>>

keyEdge(ax, ay, bx, by) == << <<ax, ay>>, <<bx, by>> >>

manhattan(a, b) == Abs(a[1] - b[1]) + Abs(a[2] - b[2])

\* isWalkable(tile): tileType is set and is neither "Water" nor "Stone"
isWalkable(grid, c) == c \in grid.walk

neighbors4(x, y, w, h) ==
    (IF x > 0 THEN << <<x - 1, y>> >> ELSE <<>>)
        \o (IF x < w - 1 THEN << <<x + 1, y>> >> ELSE <<>>)
        \o (IF y > 0 THEN << <<x, y - 1>> >> ELSE <<>>)
        \o (IF y < h - 1 THEN << <<x, y + 1>> >> ELSE <<>>)

cloneReservations == [vertex |-> <<>>, edge |-> <<>>]

\* const set = m.get(t) ?? new Set(); set.add(k); m.set(t, set)
AddAt(m, t, k) ==
    IF t \in DOMAIN m THEN [m EXCEPT ![t] = @ \cup {k}] ELSE (t :> {k}) @@ m

reserveVertex(res, t, x, y) == [res EXCEPT !.vertex = AddAt(@, t, keyXY(x, y))]

reserveEdge(res, t, ax, ay, bx, by) == [res EXCEPT !.edge = AddAt(@, t, keyEdge(ax, ay, bx, by))]

isReserved(res, t, x, y) ==
    IF t \in DOMAIN res.vertex THEN keyXY(x, y) \in res.vertex[t] ELSE FALSE

isEdgeReserved(res, t, ax, ay, bx, by) ==
    IF t \in DOMAIN res.edge THEN keyEdge(ax, ay, bx, by) \in res.edge[t] ELSE FALSE

MaxOf(S) == CHOOSE m \in S : \A n \in S : m >= n

ReserveRestNone(res, pos, u, horizon) == res

\* "for (let u = t + 1; u <= horizon; u++) reserveVertex(res, u, pos.x, pos.y)"
RECURSIVE ReserveRest(_, _, _, _)
ReserveRest(res, pos, u, horizon) ==
    IF u > horizon THEN res
    ELSE ReserveRest(reserveVertex(res, u, pos[1], pos[2]), pos, u + 1, horizon)

\* "for (let t = 0; t < path.length; t++)": path[t] of the code is path[t + 1] here
RECURSIVE ReservePath(_, _, _, _)
ReservePath(res, path, t, horizon) ==
    IF ~(t < Len(path)) THEN res
    ELSE LET pos == path[t + 1]
             r1 == reserveVertex(res, t, pos[1], pos[2])
             r2 == IF t < Len(path) - 1
                   THEN reserveEdge(r1, t, pos[1], pos[2], path[t + 2][1], path[t + 2][2])
                   ELSE r1
             r3 == IF t = Len(path) - 1 THEN ReserveRest(r2, pos, t + 1, horizon) ELSE r2
         IN ReservePath(r3, path, t + 1, horizon)

RECURSIVE ReservePaths(_, _, _, _)
ReservePaths(res, paths, i, horizon) ==
    IF i > Len(paths) THEN res
    ELSE ReservePaths(ReservePath(res, paths[i], 0, horizon), paths, i + 1, horizon)

buildReservationsFromPaths(paths) ==
    LET horizon == MaxOf({0} \cup { Len(paths[i]) - 1 : i \in 1 .. Len(paths) })
    IN ReservePaths(cloneReservations, paths, 1, horizon)

----------------------------------------------------------------------------
(* planPathWithReservations: space-time A*.  nodes is the arena of the      *)
(* SpaceTimeNode objects (parent is an arena index, 0 for none), open the   *)
(* array kept sorted by push (arena indices), openKey and closed the sets   *)
(* of keys <<x, y, t>>.                                                     *)

\* the comparator of open.sort: a.f - b.f || b.g - a.g
SortsAfterLoose(a, b) == a.f - b.f > 0

SortsAfterReversed(a, b) == a.f - b.f < 0

SortsAfter(a, b) ==
    LET d == a.f - b.f
    IN IF d # 0 THEN d > 0 ELSE b.g - a.g > 0

\* open.push(node); open.sort(cmp): open is sorted already and the sort is
\* stable, so the new node lands behind every entry that does not sort after it
RECURSIVE SortedInsert(_, _, _, _)
SortedInsert(nodes, open, idx, i) ==
    IF i > Len(open) THEN Append(open, idx)
    ELSE IF SortsAfter(nodes[open[i]], nodes[idx])
         THEN SubSeq(open, 1, i - 1) \o <<idx>> \o SubSeq(open, i, Len(open))
         ELSE SortedInsert(nodes, open, idx, i + 1)

PlanPush(s, node) ==
    LET idx == Len(s.nodes) + 1
        nodes == Append(s.nodes, node)
    IN [s EXCEPT !.nodes = nodes,
                 !.open = SortedInsert(nodes, s.open, idx, 1),
                 !.openKey = @ \cup { <<node.x, node.y, node.t>> }]

\* "if (!closed.has(k) && !openKey.has(k)) push(node)"
PlanOfferAlways(s, node) == PlanPush(s, node)

PlanOffer(s, node) ==
    LET k == <<node.x, node.y, node.t>>
    IN IF k \notin s.closed /\ k \notin s.openKey THEN PlanPush(s, node) ELSE s

PlanStart(st, goal) ==
    PlanPush([nodes |-> <<>>, open |-> <<>>, openKey |-> {}, closed |-> {},
              status |-> "running", found |-> FALSE, path |-> <<>>],
             [x |-> st[1], y |-> st[2], t |-> 0, g |-> 0, f |-> manhattan(st, goal), parent |-> 0])

RECURSIVE Timeline(_, _)
Timeline(nodes, idx) ==
    IF idx = 0 THEN <<>>
    ELSE Append(Timeline(nodes, nodes[idx].parent), <<nodes[idx].x, nodes[idx].y>>)

\* "while (path.length <= horizon) path.push(last)"
RECURSIVE PadToHorizonShort(_, _, _)
PadToHorizonShort(path, last, horizon) ==
    IF Len(path) < horizon THEN PadToHorizonShort(Append(path, last), last, horizon) ELSE path

RECURSIVE PadToHorizon(_, _, _)
PadToHorizon(path, last, horizon) ==
    IF Len(path) <= horizon THEN PadToHorizon(Append(path, last), last, horizon) ELSE path

\* the WAIT candidate of the node cur
PlanWait(grid, goal, res, s, curIdx) ==
    LET cur == s.nodes[curIdx]
        tNext == cur.t + 1
        waitOK == ~isReserved(res, tNext, cur.x, cur.y) /\ isWalkable(grid, <<cur.x, cur.y>>)
        g == cur.g + 1
        node == [x |-> cur.x, y |-> cur.y, t |-> tNext, g |-> g,
                 f |-> g + manhattan(<<cur.x, cur.y>>, goal), parent |-> curIdx]
    IN IF waitOK THEN PlanOffer(s, node) ELSE s

\* the neighbour nb may be entered from cur: walkable, its vertex free at
\* tNext, and no opposite move reserved at cur.t
MoveAllowedNoEdge(grid, res, cur, nb) ==
    /\ isWalkable(grid, nb)
    /\ ~isReserved(res, cur.t + 1, nb[1], nb[2])

MoveAllowedNoVertex(grid, res, cur, nb) ==
    /\ isWalkable(grid, nb)
    /\ ~isEdgeReserved(res, cur.t, nb[1], nb[2], cur.x, cur.y)

MoveAllowed(grid, res, cur, nb) ==
    /\ isWalkable(grid, nb)
    /\ ~isReserved(res, cur.t + 1, nb[1], nb[2])
    /\ ~isEdgeReserved(res, cur.t, nb[1], nb[2], cur.x, cur.y)

\* one pass of "for (const nb of neighbors4(...))"
PlanMove(grid, goal, res, s, curIdx, nb) ==
    LET cur == s.nodes[curIdx]
        g == cur.g + 1
        node == [x |-> nb[1], y |-> nb[2], t |-> cur.t + 1, g |-> g,
                 f |-> g + manhattan(nb, goal), parent |-> curIdx]
    IN IF MoveAllowed(grid, res, cur, nb) THEN PlanOffer(s, node) ELSE s

RECURSIVE PlanMoves(_, _, _, _, _, _, _)
PlanMoves(grid, goal, res, s, curIdx, nbs, i) ==
    IF i > Len(nbs) THEN s
    ELSE PlanMoves(grid, goal, res, PlanMove(grid, goal, res, s, curIdx, nbs[i]), curIdx, nbs, i + 1)

\* one pass of "while (open.length)", or the return null after it
PlanLoop(grid, goal, res, horizon, s) ==
    IF Len(s.open) = 0
    THEN [s EXCEPT !.status = "done", !.found = FALSE]
    ELSE LET curIdx == Head(s.open)
             cur == s.nodes[curIdx]
             ck == <<cur.x, cur.y, cur.t>>
             popped == [s EXCEPT !.open = Tail(@), !.openKey = @ \ {ck}]
             closed == [popped EXCEPT !.closed = @ \cup {ck}]
         IN IF ck \in s.closed THEN popped
            ELSE IF cur.x = goal[1] /\ cur.y = goal[2]
            THEN [closed EXCEPT !.status = "done", !.found = TRUE,
                                !.path = PadToHorizon(Timeline(s.nodes, curIdx), goal, horizon)]
            ELSE IF cur.t + 1 > horizon THEN closed
            ELSE PlanMoves(grid, goal, res, PlanWait(grid, goal, res, closed, curIdx),
                           curIdx, neighbors4(cur.x, cur.y, grid.w, grid.h), 1)

RECURSIVE PlanRun(_, _, _, _, _)
PlanRun(grid, goal, res, horizon, s) ==
    IF s.status = "done" THEN s
    ELSE PlanRun(grid, goal, res, horizon, PlanLoop(grid, goal, res, horizon, s))

\* the while loop, left after at most fuel passes
RECURSIVE PlanRunWithin(_, _, _, _, _, _)
PlanRunWithin(fuel, grid, goal, res, horizon, s) ==
    IF s.status = "done" \/ fuel = 0 THEN s
    ELSE PlanRunWithin(fuel - 1, grid, goal, res, horizon,
                       PlanLoop(grid, goal, res, horizon, s))

\* the value planPathWithReservations returns: [found, path], found = FALSE for null
planPathWithReservations(grid, st, goal, baseReservations, horizon) ==
    LET s == PlanRun(grid, goal, baseReservations, horizon, PlanStart(st, goal))
    IN [found |-> s.found, path |-> s.path]

----------------------------------------------------------------------------
(* The MultiAgent component: its handlers, with play() one agent at a time  *)

HORIZON == MapW + MapH

PlanMaps == AllGrids(MapW, MapH)

NoPath == [def |-> TRUE, cells |-> <<>>]

InitPlan ==
    /\ map \in PlanMaps
    /\ agents = <<>>
    /\ selectingAgents = NoSelection
    /\ planned = FALSE
    /\ planningFailedFor = <<>>
    /\ play = NoPlay
    /\ planLog = <<>>
    /\ crashed = FALSE
    /\ NoSearch
    /\ NoMst
    /\ NoHeap

Interactive == play.pc = "idle" /\ ~crashed

\* the Regenerate Map button: setNoiseLayers, then the effect on noiseLayers
RegenerateMap ==
    /\ Interactive
    /\ map' \in PlanMaps
    /\ agents' = <<>>
    /\ planned' = FALSE
    /\ planningFailedFor' = <<>>
    /\ planLog' = <<>>
    /\ UNCHANGED <<heapVars, selectingAgents, play, crashed, astarVars, mstVars>>

\* the Add Agent button, disabled while selectingAgents is set
onAddAgent ==
    /\ Interactive
    /\ selectingAgents = NoSelection
    /\ Len(agents) < MaxAgents
    /\ LET id == (IF Len(agents) > 0 THEN agents[Len(agents)].id ELSE 0) + 1
       IN /\ agents' = Append(agents, [id |-> id, start |-> NoPoint, goal |-> NoPoint,
                                       path |-> NoPath])
          /\ selectingAgents' = [mode |-> "start", agentId |-> id]
    /\ planned' = FALSE
    /\ planningFailedFor' = <<>>
    /\ UNCHANGED <<heapVars, map, play, planLog, crashed, astarVars, mstVars>>

\* a click on tile c that changes the state: a selection is pending, the tile
\* is walkable and the selected agent is in the list
onClickTile ==
    /\ Interactive
    /\ selectingAgents # NoSelection
    /\ \E c \in CellsOf(map.w, map.h) :
         /\ isWalkable(map, c)
         /\ \E idx \in 1 .. Len(agents) :
              /\ agents[idx].id = selectingAgents.agentId
              /\ IF selectingAgents.mode = "start"
                 THEN /\ agents' = [agents EXCEPT ![idx].start = c]
                      /\ selectingAgents' = [mode |-> "goal", agentId |-> selectingAgents.agentId]
                 ELSE /\ agents' = [agents EXCEPT ![idx].goal = c]
                      /\ selectingAgents' = NoSelection
    /\ UNCHANGED <<heapVars, map, planned, planningFailedFor, play, planLog, crashed, astarVars, mstVars>>

\* the Play button (disabled without agents or while selecting): play() up to its loop
PlayBegin ==
    /\ Interactive
    /\ Len(agents) > 0
    /\ selectingAgents = NoSelection
    /\ planned' = FALSE
    /\ planningFailedFor' = <<>>
    /\ play' = [pc |-> "loop", i |-> 1, plannedPaths |-> <<>>, failed |-> <<>>,
                reservations |-> cloneReservations]
    /\ planLog' = <<>>
    /\ UNCHANGED <<heapVars, map, agents, selectingAgents, crashed, astarVars, mstVars>>

\* what planning the agent a against the current reservations returns
PlanForAgainstCommitted(a) ==
    IF a.start = NoPoint \/ a.goal = NoPoint THEN [found |-> FALSE, path |-> <<>>]
    ELSE LET others == SelectSeq(agents, LAMBDA b : b.id # a.id /\ b.path.def /\ b.path.cells # <<>>)
             paths == [n \in 1 .. Len(others) |-> others[n].path.cells]
         IN planPathWithReservations(map, a.start, a.goal,
                                     buildReservationsFromPaths(paths), HORIZON)

PlanFor(a) ==
    IF a.start = NoPoint \/ a.goal = NoPoint THEN [found |-> FALSE, path |-> <<>>]
    ELSE planPathWithReservations(map, a.start, a.goal, play.reservations, HORIZON)

\* one pass of "for (const a of agents)" that ends in failed.push(a.id)
PlanFailedAborts ==
    /\ play.pc = "loop"
    /\ play.i <= Len(agents)
    /\ LET a == agents[play.i]
           r == PlanFor(a)
       IN /\ ~r.found
          /\ play' = [play EXCEPT !.i = Len(agents) + 1, !.failed = Append(@, a.id)]
          /\ planLog' = Append(planLog, r)
    /\ UNCHANGED <<heapVars, map, agents, selectingAgents, planned, planningFailedFor, crashed, astarVars, mstVars>>

PlanFailed ==
    /\ play.pc = "loop"
    /\ play.i <= Len(agents)
    /\ LET a == agents[play.i]
           r == PlanFor(a)
       IN /\ ~r.found
          /\ play' = [play EXCEPT !.i = @ + 1, !.failed = Append(@, a.id)]
          /\ planLog' = Append(planLog, r)
    /\ UNCHANGED <<heapVars, map, agents, selectingAgents, planned, planningFailedFor, crashed, astarVars, mstVars>>

\* one pass of the loop that ends in plannedPaths.push(path)
PlanSucceeded ==
    /\ play.pc = "loop"
    /\ play.i <= Len(agents)
    /\ LET a == agents[play.i]
           r == PlanFor(a)
           paths == Append(play.plannedPaths, r.path)
       IN /\ r.found
          /\ play' = [play EXCEPT !.i = @ + 1, !.plannedPaths = paths,
                                  !.reservations = buildReservationsFromPaths(paths)]
          /\ planLog' = Append(planLog, r)
    /\ UNCHANGED <<heapVars, map, agents, selectingAgents, planned, planningFailedFor, crashed, astarVars, mstVars>>

\* agents.map((agent, i) => ({ ...agent, path: plannedPaths[i] })): index i of
\* the code is i + 1 here; past the end of plannedPaths the path is undefined
CommittedPath(plannedPaths, i) ==
    IF i <= Len(plannedPaths) THEN [def |-> TRUE, cells |-> plannedPaths[i]]
    ELSE [def |-> FALSE, cells |-> <<>>]

\* "commit results", and the effect on [timeStep, planned, agents] after it,
\* which reads a.path.length of every agent
PlayCommit ==
    /\ play.pc = "loop"
    /\ play.i > Len(agents)
    /\ agents' = [i \in 1 .. Len(agents) |->
                    [agents[i] EXCEPT !.path = CommittedPath(play.plannedPaths, i)]]
    /\ planned' = TRUE
    /\ planningFailedFor' = play.failed
    /\ play' = NoPlay
    /\ crashed' = \E i \in 1 .. Len(agents) : ~CommittedPath(play.plannedPaths, i).def
    /\ UNCHANGED <<heapVars, map, selectingAgents, planLog, astarVars, mstVars>>

\* the Reset Agents button
resetAgents ==
    /\ Interactive
    /\ agents' = <<>>
    /\ planned' = FALSE
    /\ planningFailedFor' = <<>>
    /\ selectingAgents' = NoSelection
    /\ planLog' = <<>>
    /\ UNCHANGED <<heapVars, map, play, crashed, astarVars, mstVars>>

NextPlan ==
    \/ RegenerateMap
    \/ onAddAgent
    \/ onClickTile
    \/ PlayBegin
    \/ PlanFailed
    \/ PlanSucceeded
    \/ PlayCommit
    \/ resetAgents

SpecPlan == InitPlan /\ [][NextPlan]_vars

----------------------------------------------------------------------------
(* Claims about play() *)

\* the timesteps of a planned path: path[t] of the code is path[t + 1] here
CellAt(path, t) == path[t + 1]

\* the agents of the finished play() whose planning returned a path
Planned(i) == i \in 1 .. Len(planLog) /\ planLog[i].found

AfterPlay == planned /\ Len(planLog) = Len(agents)

\* C1: after play(), two distinct agents that both received a path are in
\* different cells at every timestep t in 0..H, the start cells at t = 0 and
\* the padded goal cells included.
C1_NoVertexCollision ==
    AfterPlay =>
        \A i, j \in 1 .. Len(agents) :
            (i # j /\ Planned(i) /\ Planned(j)) =>
                \A t \in 0 .. HORIZON : CellAt(planLog[i].path, t) # CellAt(planLog[j].path, t)

\* C2: after play(), no two distinct planned agents swap along an edge: never
\* is agent i at a at t and at b at t + 1 while agent j is at b at t and at a
\* at t + 1, for distinct cells a and b and t in 0..H-1.
C2_NoSwap ==
    AfterPlay =>
        \A i, j \in 1 .. Len(agents) :
            (i # j /\ Planned(i) /\ Planned(j)) =>
                \A t \in 0 .. HORIZON - 1 :
                    ~ /\ CellAt(planLog[i].path, t) # CellAt(planLog[i].path, t + 1)
                      /\ CellAt(planLog[i].path, t) = CellAt(planLog[j].path, t + 1)
                      /\ CellAt(planLog[i].path, t + 1) = CellAt(planLog[j].path, t)

\* two planned agents that exchange adjacent cells: the later one cannot take
\* the edge between them
C2_Witness ==
    /\ AfterPlay
    /\ \E i, j \in 1 .. Len(agents) :
         /\ i < j
         /\ Planned(i)
         /\ Planned(j)
         /\ agents[i].start = agents[j].goal
         /\ agents[i].goal = agents[j].start
         /\ manhattan(agents[i].start, agents[i].goal) = 1

\* the loop of play() run on a list of agents from empty reservations: the
\* sequence of what planning returned for each agent of the list
RECURSIVE PlanList(_, _, _, _, _, _)
PlanList(grid, list, i, paths, res, log) ==
    IF i > Len(list) THEN log
    ELSE LET a == list[i]
             r == IF a.start = NoPoint \/ a.goal = NoPoint
                  THEN [found |-> FALSE, path |-> <<>>]
                  ELSE planPathWithReservations(grid, a.start, a.goal, res, HORIZON)
             next == IF r.found THEN Append(paths, r.path) ELSE paths
         IN PlanList(grid, list, i + 1, next,
                     IF r.found THEN buildReservationsFromPaths(next) ELSE res,
                     Append(log, r))

PlanAlone(grid, list) == PlanList(grid, list, 1, <<>>, cloneReservations, <<>>)

\* C7: agents are planned in list order and what is planned for the k-th agent
\* depends only on the grid, the horizon and agents 1..k: it is what planning
\* the list cut after the k-th agent returns for its last agent, whatever
\* agents follow.
C7_PrefixStable ==
    AfterPlay =>
        \A k \in 1 .. Len(agents) :
            /\ planLog[k] = PlanAlone(map, SubSeq(agents, 1, k))[k]
            /\ planLog[k].found =>
                 /\ CellAt(planLog[k].path, 0) = agents[k].start
                 /\ CellAt(planLog[k].path, HORIZON) = agents[k].goal

\* a play over three agents in which the last one had to avoid the others: its
\* path is not the one it gets when planned alone
C7_Witness ==
    /\ AfterPlay
    /\ Len(agents) = MaxAgents
    /\ Planned(1)
    /\ Planned(MaxAgents)
    /\ planLog[MaxAgents] # PlanAlone(map, <<agents[MaxAgents]>>)[1]

\* the (timestep, key) pairs a Map of reservations holds
Holds(m) == UNION { { <<t, k>> : k \in m[t] } : t \in DOMAIN m }

\* the log entries before index n whose planning returned a path
Succeeded(n) == { i \in 1 .. n - 1 : planLog[i].found }

RECURSIVE IdsOfFailed(_, _)
IdsOfFailed(list, n) ==
    IF n = 0 THEN <<>>
    ELSE IdsOfFailed(list, n - 1) \o (IF planLog[n].found THEN <<>> ELSE <<list[n].id>>)

\* C8: a failed agent does not abort the batch.  While play() runs, the failed
\* list holds the ids of the agents that failed so far and the reservations
\* used for the next agent are those of the paths of the earlier agents that
\* planned successfully, and nothing else; when play() ends every agent has
\* been attempted and the failed ids are reported.
C8_FailureIsolated ==
    /\ play.pc = "loop" =>
         /\ Len(planLog) = play.i - 1
         /\ play.failed = IdsOfFailed(agents, Len(planLog))
         /\ Holds(play.reservations.vertex) =
              { <<t, CellAt(planLog[i].path, t)>> : t \in 0 .. HORIZON, i \in Succeeded(play.i) }
         /\ Holds(play.reservations.edge) =
              { <<t, <<CellAt(planLog[i].path, t), CellAt(planLog[i].path, t + 1)>> >> :
                  t \in 0 .. HORIZON - 1, i \in Succeeded(play.i) }
    /\ planned =>
         /\ Len(planLog) = Len(agents)
         /\ planningFailedFor = IdsOfFailed(agents, Len(planLog))

\* a play in which an agent failed and a later agent was planned, against
\* reservations that are not empty
C8_Witness ==
    /\ play.pc = "loop"
    /\ play.i = MaxAgents
    /\ Planned(1)
    /\ ~planLog[2].found

\* C9: after play() every agent whose id is not in the failed list holds the
\* path planned for it, from its start to its goal, and every agent whose id
\* is in the failed list holds no path.
C9_PerAgentResult ==
    AfterPlay =>
        \A i \in 1 .. Len(agents) :
            IF \E n \in 1 .. Len(planningFailedFor) : planningFailedFor[n] = agents[i].id
            THEN ~agents[i].path.def \/ agents[i].path.cells = <<>>
            ELSE /\ agents[i].path = [def |-> TRUE, cells |-> planLog[i].path]
                 /\ CellAt(agents[i].path.cells, 0) = agents[i].start
                 /\ CellAt(agents[i].path.cells, HORIZON) = agents[i].goal

----------------------------------------------------------------------------
(* findMST (grid2DUtil.ts): Prim over the pairwise A* paths.  Point i of   *)
(* the code is point i + 1 here.                                           *)

EdgePushedAlways(i, j, r) ==
    << [from |-> i, to |-> j, cost |-> Len(r.path), path |-> r.path] >>

\* "if (path) edges.push({ from: i, to: j, cost: path.length, path })": what
\* the pair (i, j) adds to edges when findPathAStar returned r
EdgePushed(i, j, r) ==
    IF r.found THEN << [from |-> i, to |-> j, cost |-> Len(r.path), path |-> r.path] >>
    ELSE <<>>

\* the two nested loops "for i, for j = i + 1": the edges in the order pushed
RECURSIVE PairwiseEdges(_, _, _, _, _, _)
PairwiseEdges(grid, pts, i, j, bAllowance, bCost) ==
    IF i > Len(pts) THEN <<>>
    ELSE IF j > Len(pts) THEN PairwiseEdges(grid, pts, i + 1, i + 2, bAllowance, bCost)
    ELSE EdgePushed(i, j, findPathAStar(grid, pts[i], pts[j], bAllowance, bCost))
         \o PairwiseEdges(grid, pts, i, j + 1, bAllowance, bCost)

Has(seq, v) == \E n \in 1 .. Len(seq) : seq[n] = v

SetAddAlways(seq, v) == Append(seq, v)

\* Set.add on a Set kept in insertion order
SetAdd(seq, v) == IF Has(seq, v) THEN seq ELSE Append(seq, v)

RECURSIVE BestEdgeFirst(_, _, _, _)
BestEdgeFirst(edges, inMST, n, best) ==
    IF n > Len(edges) THEN best
    ELSE LET e == edges[n]
             crosses == \/ Has(inMST, e.from) /\ ~Has(inMST, e.to)
                        \/ Has(inMST, e.to) /\ ~Has(inMST, e.from)
         IN BestEdgeFirst(edges, inMST, n + 1, IF crosses /\ best = 0 THEN n ELSE best)

\* "for (const e of edges)": the index of bestEdge, 0 for null
RECURSIVE BestEdge(_, _, _, _)
BestEdge(edges, inMST, n, best) ==
    IF n > Len(edges) THEN best
    ELSE LET e == edges[n]
             crosses == \/ Has(inMST, e.from) /\ ~Has(inMST, e.to)
                        \/ Has(inMST, e.to) /\ ~Has(inMST, e.from)
             better == best = 0 \/ e.cost < edges[best].cost
         IN BestEdge(edges, inMST, n + 1, IF crosses /\ better THEN n ELSE best)

\* "while (inMST.size < numPoints)"
RECURSIVE Prim(_, _, _, _)
Prim(edges, inMST, mstEdges, numPoints) ==
    IF Len(inMST) >= numPoints THEN [inMST |-> inMST, mstEdges |-> mstEdges]
    ELSE LET best == BestEdge(edges, inMST, 1, 0)
         IN IF best = 0 THEN [inMST |-> inMST, mstEdges |-> mstEdges]
            ELSE Prim(edges, SetAdd(SetAdd(inMST, edges[best].from), edges[best].to),
                      Append(mstEdges, edges[best]), numPoints)

\* the MSTResult returned once Prim's loop has left tree = [inMST, mstEdges]
MSTResultOf(pts, tree) ==
    LET out == SelectSeq([i \in 1 .. Len(pts) |-> i], LAMBDA i : ~Has(tree.inMST, i))
    IN [paths |-> [n \in 1 .. Len(tree.mstEdges) |-> tree.mstEdges[n].path],
        connectedPoints |-> [n \in 1 .. Len(tree.inMST) |-> pts[tree.inMST[n]]],
        disconnectedPoints |-> [n \in 1 .. Len(out) |-> pts[out[n]]]]

findMST(grid, pts, bAllowance, bCost) ==
    IF Len(pts) < 2
    THEN [paths |-> <<>>, connectedPoints |-> <<>>, disconnectedPoints |-> <<>>]
    ELSE MSTResultOf(pts, Prim(PairwiseEdges(grid, pts, 1, 2, bAllowance, bCost),
                               <<1>>, <<>>, Len(pts)))

\* Array.prototype.flat() on an array of arrays
RECURSIVE Flat(_)
Flat(arrays) == IF arrays = <<>> THEN <<>> ELSE Head(arrays) \o Flat(Tail(arrays))

----------------------------------------------------------------------------
(* updateMSTWithNewPoint and the MSTRoads component (MSTRoads.tsx) *)

\* "for (const existing of currentPoints)": the candidates in the order pushed
CandidatePushed(r) ==
    IF r.found THEN << [cost |-> Len(r.path), path |-> r.path] >> ELSE <<>>

RECURSIVE Candidates(_, _, _, _, _, _)
Candidates(grid, currentPoints, newPoint, n, bAllowance, bCost) ==
    IF n > Len(currentPoints) THEN <<>>
    ELSE CandidatePushed(findPathAStar(grid, newPoint, currentPoints[n], bAllowance, bCost))
         \o Candidates(grid, currentPoints, newPoint, n + 1, bAllowance, bCost)

\* the arguments (start, end) of the calls of findPathAStar the loop "for (const
\* existing of currentPoints)" makes, in order
RECURSIVE CandidateCalls(_, _, _)
CandidateCalls(currentPoints, newPoint, n) ==
    IF n > Len(currentPoints) THEN <<>>
    ELSE << <<newPoint, currentPoints[n]>> >> \o CandidateCalls(currentPoints, newPoint, n + 1)

RECURSIVE CheapestFirst(_, _, _)
CheapestFirst(candidates, n, best) == IF Len(candidates) > 0 THEN 1 ELSE 0

\* candidates.sort((a, b) => a.cost - b.cost)[0]: the sort is stable, so it is
\* the first candidate of the least cost; 0 when there is none
RECURSIVE Cheapest(_, _, _)
Cheapest(candidates, n, best) ==
    IF n > Len(candidates) THEN best
    ELSE Cheapest(candidates, n + 1,
                  IF best = 0 \/ candidates[n].cost < candidates[best].cost THEN n ELSE best)

\* what updateMSTWithNewPoint returns once its loop has left candidates.
\* paths is [...currentMST.paths, best.path]: the entries spread from
\* currentMST.paths are the tiles the component passes in, kept here as one
\* array so that flat() of the result is their run followed by best.path
Connected(newPoint, currentMST, candidates) ==
    LET best == Cheapest(candidates, 1, 0)
    IN IF best = 0
       THEN [paths |-> << currentMST.paths >>,
             disconnectedPoints |-> Append(currentMST.disconnectedPoints, newPoint)]
       ELSE [paths |-> << currentMST.paths, candidates[best].path >>,
             disconnectedPoints |->
                 SelectSeq(currentMST.disconnectedPoints, LAMBDA q : q # newPoint)]

updateMSTWithNewPoint(grid, currentPoints, newPoint, currentMST, bAllowance, bCost) ==
    Connected(newPoint, currentMST,
              Candidates(grid, currentPoints, newPoint, 1, bAllowance, bCost))

DefaultBridgeAllowance == 10
DefaultBridgeCost == 5

\* the slider positions the model tries
BridgeAllowances == {0, 1, DefaultBridgeAllowance}
MstBridgeCosts == {0, DefaultBridgeCost}

MstMaps == AllGrids(MstW, MstH)

InitMST ==
    /\ map \in MstMaps
    /\ points = <<>>
    /\ disconnectedPoints = <<>>
    /\ allMstTiles = <<>>
    /\ mstAttempted = FALSE
    /\ bridgeAllowance = DefaultBridgeAllowance
    /\ bridgeCost = DefaultBridgeCost
    /\ start = NoPoint
    /\ end = NoPoint
    /\ bridgeSteps = 0
    /\ search = [status |-> "none"]
    /\ prevCost = 0
    /\ NoAgents
    /\ NoHeap

\* setAllMstTiles(paths.flat()); setDisconnectedPoints(disconnectedPoints)
TreeShown(r) ==
    [tiles |-> Flat(r.paths), disconnected |-> r.disconnectedPoints, attempted |-> TRUE]

\* "if (allMstTiles.length === 0 || bridgeAllowance || bridgeCost)": the effect
\* takes the findMST branch
Recomputes(bAllowance, bCost) == allMstTiles = <<>> \/ bAllowance # 0 \/ bCost # 0

\* the effect on [points, bridgeAllowance, bridgeCost], run with their new
\* values: what it leaves in allMstTiles, disconnectedPoints and mstAttempted
ConnectPoints(pts, bAllowance, bCost) ==
    IF Len(pts) > 1
    THEN IF Recomputes(bAllowance, bCost)
         THEN TreeShown(findMST(map, pts, bAllowance, bCost))
         ELSE TreeShown(updateMSTWithNewPoint(
                            map, SubSeq(pts, 1, Len(pts) - 1), pts[Len(pts)],
                            [paths |-> allMstTiles,
                             disconnectedPoints |-> disconnectedPoints],
                            bAllowance, bCost))
    ELSE [tiles |-> allMstTiles, disconnected |-> disconnectedPoints,
          attempted |-> mstAttempted]

handleClickTile ==
    /\ Len(points) < MaxPoints
    /\ \E c \in map.walk :
         /\ ~Has(points, c)
         /\ points' = Append(points, c)
         /\ \E e \in {ConnectPoints(points', bridgeAllowance, bridgeCost)} :
              /\ allMstTiles' = e.tiles
              /\ disconnectedPoints' = e.disconnected
              /\ mstAttempted' = e.attempted
    /\ UNCHANGED <<heapVars, map, bridgeAllowance, bridgeCost, start, end, bridgeSteps, search,
                   prevCost, agentVars>>

setBridgeAllowance ==
    /\ \E v \in BridgeAllowances \ {bridgeAllowance} :
         /\ bridgeAllowance' = v
         /\ \E e \in {ConnectPoints(points, v, bridgeCost)} :
              /\ allMstTiles' = e.tiles
              /\ disconnectedPoints' = e.disconnected
              /\ mstAttempted' = e.attempted
    /\ UNCHANGED <<heapVars, map, points, bridgeCost, start, end, bridgeSteps, search, prevCost,
                   agentVars>>

setBridgeCost ==
    /\ \E v \in MstBridgeCosts \ {bridgeCost} :
         /\ bridgeCost' = v
         /\ \E e \in {ConnectPoints(points, bridgeAllowance, v)} :
              /\ allMstTiles' = e.tiles
              /\ disconnectedPoints' = e.disconnected
              /\ mstAttempted' = e.attempted
    /\ UNCHANGED <<heapVars, map, points, bridgeAllowance, start, end, bridgeSteps, search, prevCost,
                   agentVars>>

resetAll ==
    /\ points # <<>>
    /\ points' = <<>>
    /\ allMstTiles' = <<>>
    /\ disconnectedPoints' = <<>>
    /\ mstAttempted' = FALSE
    /\ UNCHANGED <<heapVars, map, bridgeAllowance, bridgeCost, start, end, bridgeSteps, search,
                   prevCost, agentVars>>

\* the "Reset Perlin Noise Map" button: new noise layers, then resetAll()
ResetPerlinMap ==
    /\ map' \in MstMaps
    /\ points' = <<>>
    /\ allMstTiles' = <<>>
    /\ disconnectedPoints' = <<>>
    /\ mstAttempted' = FALSE
    /\ UNCHANGED <<heapVars, bridgeAllowance, bridgeCost, start, end, bridgeSteps, search, prevCost,
                   agentVars>>

NextMST ==
    \/ handleClickTile
    \/ setBridgeAllowance
    \/ setBridgeCost
    \/ resetAll
    \/ ResetPerlinMap

SpecMST == InitMST /\ [][NextMST]_vars

----------------------------------------------------------------------------
(* Claims about the spanning tree *)

RangeOf(seq) == { seq[n] : n \in 1 .. Len(seq) }

\* the component's partition of the points is the one findMST gives for the
\* same point list, grid and bridging parameters
AgreesWithBatch ==
    RangeOf(disconnectedPoints) =
        RangeOf(findMST(map, points, bridgeAllowance, bridgeCost).disconnectedPoints)

\* C6: in a tree whose partition of the points into connected and disconnected
\* is the one findMST gives, and to which the component adds the next point
\* with updateMSTWithNewPoint, inserting any further point leaves the partition
\* that findMST gives for the longer point list with the same grid and
\* bridging parameters.
C6_IncrementalMatchesBatch ==
    (/\ Len(points) >= 2
     /\ allMstTiles # <<>>
     /\ bridgeAllowance = 0
     /\ bridgeCost = 0
     /\ AgreesWithBatch) =>
        \A c \in map.walk \ RangeOf(points) :
            RangeOf(updateMSTWithNewPoint(
                        map, points, c,
                        [paths |-> allMstTiles, disconnectedPoints |-> disconnectedPoints],
                        bridgeAllowance, bridgeCost).disconnectedPoints)
            = RangeOf(findMST(map, Append(points, c), bridgeAllowance,
                              bridgeCost).disconnectedPoints)

----------------------------------------------------------------------------
(* findPathAStar called with any arguments, valid or not: a start or an end *)
(* outside the grid, a negative bridgeSteps.  The code reads no cell of the *)
(* grid before the neighbour loop and compares numbers only, so the search  *)
(* runs on such arguments as it does on valid ones.                         *)

CallGrids == PlanMaps \cup {MazeGrid}

\* the cells of the grid and the ring of positions around it
CallCells(grid) == (0 - 1 .. grid.w) \X (0 - 1 .. grid.h)

CallBudgets == 0 - 1 .. MaxBridge

InitCall ==
    /\ map \in CallGrids
    /\ start \in CallCells(map)
    /\ end \in CallCells(map)
    /\ bridgeSteps \in CallBudgets
    /\ bridgeCost \in {0, 1}
    /\ search = AStarStart(map, start, end)
    /\ prevCost = NoCost
    /\ NoAgents
    /\ NoMst
    /\ NoHeap

SpecCall == InitCall /\ [][NextAStar]_vars

InvalidCall ==
    \/ ~InBounds(map, start[1], start[2])
    \/ ~InBounds(map, end[1], end[2])
    \/ bridgeSteps < 0

\* C11: a call of findPathAStar with a start or an end outside the grid or
\* with a negative bridge budget is rejected before the search begins: no node
\* is created, pushed on the open set or closed for it.
C11_InvalidRejected ==
    InvalidCall =>
        /\ search.nodes = <<>>
        /\ HeapIsEmpty(search.openSet)
        /\ search.closedSet = {}

----------------------------------------------------------------------------
(* Further claims about findPathAStar *)

RangeOfPath(path) == { path[i] : i \in 1 .. Len(path) }

\* C12: findPathAStar from a walkable cell p to p itself returns the path
\* [p], whatever bridgeSteps and bridgeCost are.
C12_SelfPath ==
    (Done /\ start = end) => (search.found /\ search.path = <<start>>)

C12_Witness ==
    /\ Done
    /\ start = end
    /\ bridgeSteps = MaxBridge
    /\ bridgeCost = 5
    /\ Cardinality(map.walk) = 1
    /\ search.path = <<start>>

\* C13: no node with bridgesUsed above bridgeSteps is ever created or pushed on
\* the open set, and a returned path steps onto at most bridgeSteps
\* non-walkable cells, counting every cell after the start cell.
C13_BudgetRespected ==
    /\ \A n \in 1 .. Len(search.nodes) : search.nodes[n].bridgesUsed <= bridgeSteps
    /\ \A n \in 1 .. Len(search.openSet) :
         search.nodes[search.openSet[n].item].bridgesUsed <= bridgeSteps
    /\ (Done /\ search.found) => BridgesOn(map, search.path) <= bridgeSteps

\* a returned path that uses the whole budget, found by a search that had to
\* prune a neighbour over the budget
C13_Witness ==
    /\ Done
    /\ search.found
    /\ bridgeSteps = MaxBridge
    /\ BridgesOn(map, search.path) = MaxBridge
    /\ \E c \in CellsOf(map.w, map.h) \ map.walk : c \notin RangeOfPath(search.path)

----------------------------------------------------------------------------
(* Claims about planPathWithReservations *)

\* the timestep at which path first is at cell c, HORIZON + 1 if it never is
RECURSIVE FirstAt(_, _, _)
FirstAt(path, c, t) ==
    IF t >= Len(path) THEN HORIZON + 1
    ELSE IF CellAt(path, t) = c THEN t
    ELSE FirstAt(path, c, t + 1)

\* C14: a path planPathWithReservations returns for horizon H has exactly
\* H + 1 entries, entry 0 is the start cell, the goal is first reached at some
\* timestep t <= H, and every entry from that timestep through H is the goal.
C14_PaddedToHorizon ==
    \A k \in 1 .. Len(planLog) :
        planLog[k].found =>
            LET path == planLog[k].path
                arrival == FirstAt(path, agents[k].goal, 0)
            IN /\ Len(path) = HORIZON + 1
               /\ CellAt(path, 0) = agents[k].start
               /\ arrival <= HORIZON
               /\ \A t \in arrival .. HORIZON : CellAt(path, t) = agents[k].goal

\* a path that waits on its way, arrives before the horizon and is padded
C14_Witness ==
    \E k \in 1 .. Len(planLog) :
        /\ planLog[k].found
        /\ LET path == planLog[k].path
               arrival == FirstAt(path, agents[k].goal, 0)
           IN /\ arrival > 1
              /\ arrival < HORIZON
              /\ \E t \in 0 .. arrival - 2 : CellAt(path, t) = CellAt(path, t + 1)

\* the cells an agent in cell c at timestep t may be in at t + 1: c itself (a
\* wait) or a 4-neighbour (a move), walkable, not reserved at t + 1, and for a
\* move with no opposite move reserved at t
StepTargets(grid, res, c, t) ==
    { d \in CellsOf(grid.w, grid.h) :
        /\ d \in grid.walk
        /\ <<t + 1, d>> \notin Holds(res.vertex)
        /\ \/ d = c
           \/ /\ Abs(c[1] - d[1]) + Abs(c[2] - d[2]) = 1
              /\ <<t, <<d, c>> >> \notin Holds(res.edge) }

\* from the cells S an agent may be in at timestep t, some sequence of waits
\* and moves is at goal at a timestep <= horizon
RECURSIVE GoalWithin(_, _, _, _, _, _)
GoalWithin(grid, res, S, t, goal, horizon) ==
    \/ goal \in S
    \/ /\ t < horizon
       /\ S # {}
       /\ GoalWithin(grid, res, UNION { StepTargets(grid, res, c, t) : c \in S },
                     t + 1, goal, horizon)

\* a key (x, y, t) is pushed at most once, so the loop makes at most one pass
\* per key and one more to find the open list empty
PassBound == MapW * MapH * (HORIZON + 1) + 1

\* the search for the agent play() plans next, cut after PassBound passes
NextSearch ==
    LET a == agents[play.i]
    IN PlanRunWithin(PassBound, map, a.goal, play.reservations, HORIZON,
                     PlanStart(a.start, a.goal))

Planning == play.pc = "loop" /\ play.i <= Len(agents)

\* C15: planPathWithReservations terminates, within one pass of its loop per
\* (cell, timestep) and one more; it creates no node with a timestep above H;
\* and it returns null exactly when no sequence of waits and moves that
\* respects the reservations reaches the goal within H timesteps.
C15_HorizonBounds ==
    Planning =>
        /\ NextSearch.status = "done"
        /\ \A n \in 1 .. Len(NextSearch.nodes) : NextSearch.nodes[n].t <= HORIZON
        /\ NextSearch.found <=>
             GoalWithin(map, play.reservations, {agents[play.i].start}, 0,
                        agents[play.i].goal, HORIZON)

\* the agent planned next has a route on the empty table but none on the table
\* of the agents planned before it: the search runs dry and returns null
C15_Witness ==
    /\ Planning
    /\ ~NextSearch.found
    /\ Len(NextSearch.nodes) > HORIZON + 1
    /\ GoalWithin(map, cloneReservations, {agents[play.i].start}, 0,
                  agents[play.i].goal, HORIZON)

----------------------------------------------------------------------------
(* buildReservationsFromPaths on its own: plannedPaths is any list of up to *)
(* MaxPaths paths, each any sequence of up to MaxPathLen cells of the map,  *)
(* and reservations the table built from the list as at line 337.           *)

MaxPathLen == 3
MaxPaths == 2

PathsUpTo(n) == UNION { [1 .. k -> CellsOf(MapW, MapH)] : k \in 0 .. n }

InitReserve ==
    /\ map = OpenGrid(MapW, MapH)
    /\ agents = <<>>
    /\ selectingAgents = NoSelection
    /\ planned = FALSE
    /\ planningFailedFor = <<>>
    /\ play = [NoPlay EXCEPT !.reservations = buildReservationsFromPaths(<<>>)]
    /\ planLog = <<>>
    /\ crashed = FALSE
    /\ NoSearch
    /\ NoMst
    /\ NoHeap

\* plannedPaths.push(path); reservations = buildReservationsFromPaths(plannedPaths)
PathPlanned ==
    /\ Len(play.plannedPaths) < MaxPaths
    /\ \E path \in PathsUpTo(MaxPathLen) :
         play' = [play EXCEPT
                    !.plannedPaths = Append(@, path),
                    !.reservations =
                        buildReservationsFromPaths(Append(play.plannedPaths, path))]
    /\ UNCHANGED <<heapVars, map, agents, selectingAgents, planned, planningFailedFor, planLog,
                   crashed, astarVars, mstVars>>

\* const plannedPaths = []; let reservations = cloneReservations()
PathsCleared ==
    /\ play.plannedPaths # <<>>
    /\ play' = [play EXCEPT !.plannedPaths = <<>>, !.reservations = cloneReservations]
    /\ UNCHANGED <<heapVars, map, agents, selectingAgents, planned, planningFailedFor, planLog,
                   crashed, astarVars, mstVars>>

NextReserve == PathPlanned \/ PathsCleared

SpecReserve == InitReserve /\ [][NextReserve]_vars

\* the last timestep of the longest path
LastStep(paths) == MaxOf({0} \cup { Len(paths[i]) - 1 : i \in 1 .. Len(paths) })

\* path occupies cell c at timestep t: on its way, or parked on its last cell
\* from its end up to timestep last
Occupies(path, c, t, last) ==
    \/ t < Len(path) /\ CellAt(path, t) = c
    \/ Len(path) > 0 /\ Len(path) <= t /\ t <= last /\ path[Len(path)] = c

\* path moves from cell a to cell b at timestep t
Traverses(path, a, b, t) ==
    t < Len(path) - 1 /\ CellAt(path, t) = a /\ CellAt(path, t + 1) = b

\* C16: the table buildReservationsFromPaths returns answers isReserved with
\* TRUE exactly at the cells a path occupies (p[t], and p's last cell after p
\* ends up to the last timestep of the longest path) and isEdgeReserved with
\* TRUE exactly at the directed moves p[t] -> p[t+1], at every timestep, those
\* past the last record included.
C16_ReservedExactly ==
    LET paths == play.plannedPaths
        res == play.reservations
    IN \A t \in 0 .. MaxPathLen + 1 : \A a \in CellsOf(MapW, MapH) :
         /\ isReserved(res, t, a[1], a[2]) <=>
              \E i \in 1 .. Len(paths) : Occupies(paths[i], a, t, LastStep(paths))
         /\ \A b \in CellsOf(MapW, MapH) :
              isEdgeReserved(res, t, a[1], a[2], b[1], b[2]) <=>
                \E i \in 1 .. Len(paths) : Traverses(paths[i], a, b, t)

\* a one-cell path and a path of MaxPathLen cells that never visits that cell:
\* the cell is reserved to the end of the longer path and not after it
C16_Witness ==
    /\ Len(play.plannedPaths) = 2
    /\ Len(play.plannedPaths[1]) = 1
    /\ Len(play.plannedPaths[2]) = MaxPathLen
    /\ play.plannedPaths[1][1] \notin RangeOfPath(play.plannedPaths[2])
    /\ isReserved(play.reservations, MaxPathLen - 1,
                  play.plannedPaths[1][1][1], play.plannedPaths[1][1][2])
    /\ ~isReserved(play.reservations, MaxPathLen,
                   play.plannedPaths[1][1][1], play.plannedPaths[1][1][2])
    /\ isEdgeReserved(play.reservations, 1,
                      play.plannedPaths[2][2][1], play.plannedPaths[2][2][2],
                      play.plannedPaths[2][3][1], play.plannedPaths[2][3][2])

----------------------------------------------------------------------------
(* MinHeap on its own: a heap after new MinHeap(), then any pushes and pops. *)
(* An item is one of MaxItems values, pushed only while it is not in the     *)
(* heap.                                                                     *)

MaxItems == 5
MaxPriority == 3

InitHeap ==
    /\ map = OpenGrid(MapW, MapH)
    /\ heap = <<>>
    /\ held = {}
    /\ lastPop = NoPop
    /\ NoSearch
    /\ NoAgents
    /\ NoMst

\* the items that are not in the heap
Free == (1 .. MaxItems) \ { e.item : e \in held }

\* push(item, priority), item the first value that is free
Push ==
    /\ \E item \in Free, priority \in 0 .. MaxPriority :
         /\ \A other \in Free : item <= other
         /\ heap' = HeapPush(heap, item, priority)
         /\ held' = held \cup { [priority |-> priority, item |-> item] }
    /\ UNCHANGED <<lastPop, map, astarVars, agentVars, mstVars>>

\* pop() of a heap that holds items
Pop ==
    /\ ~HeapIsEmpty(heap)
    /\ heap' = HeapPop(heap)
    /\ held' = { e \in held : e.item # HeapMin(heap) }
    /\ lastPop' = [called |-> TRUE, ret |-> HeapMin(heap), from |-> held]
    /\ UNCHANGED <<map, astarVars, agentVars, mstVars>>

\* "if (this.data.length === 0) return undefined"
PopEmpty ==
    /\ HeapIsEmpty(heap)
    /\ lastPop' = [called |-> TRUE, ret |-> Undefined, from |-> held]
    /\ UNCHANGED <<heap, held, map, astarVars, agentVars, mstVars>>

NextHeap == Push \/ Pop \/ PopEmpty

SpecHeap == InitHeap /\ [][NextHeap]_vars

\* C17: pop returns an item whose priority is the least among the items pushed
\* and not yet lastPop, and undefined when there is none; isEmpty is true exactly
\* when every pushed item has been lastPop.
C17_PopsMinimum ==
    /\ HeapIsEmpty(heap) <=> held = {}
    /\ lastPop.called =>
         IF lastPop.from = {} THEN lastPop.ret = Undefined
         ELSE \E e \in lastPop.from :
                /\ e.item = lastPop.ret
                /\ \A f \in lastPop.from : e.priority <= f.priority

\* a pop from a full heap in which two items tie and the one returned is
\* strictly below another, by a pop that had to sift down
C17_Witness ==
    /\ lastPop.called
    /\ Cardinality(lastPop.from) = MaxItems
    /\ \E f, g \in lastPop.from : f.item # g.item /\ f.priority = g.priority
    /\ \E e, f \in lastPop.from : e.item = lastPop.ret /\ e.priority < f.priority
    /\ ~HeapIsEmpty(heap)
    /\ heap[1].priority > 0

----------------------------------------------------------------------------
(* findMST on the points, map and bridge settings MSTRoads holds.           *)

\* every point reaches every other by a route within the bridge allowance
MutuallyReachable(grid, pts, bAllowance) ==
    \A i, j \in 1 .. Len(pts) : pts[j] \in ReachWithin(grid, pts[i], bAllowance)

\* C18: for two or more points the tree findMST returns has one path segment
\* fewer than it has connected points; when every point reaches every other
\* that is |points| - 1 segments and no point is reported disconnected.
C18_TreeSize ==
    Len(points) >= 2 =>
        \A r \in {findMST(map, points, bridgeAllowance, bridgeCost)} :
            /\ Len(r.paths) = Len(r.connectedPoints) - 1
            /\ MutuallyReachable(map, points, bridgeAllowance) =>
                 /\ Len(r.paths) = Len(points) - 1
                 /\ r.disconnectedPoints = <<>>

\* MaxPoints points that reach each other only over water, joined by
\* MaxPoints - 1 segments
C18_Witness ==
    /\ Len(points) = MaxPoints
    /\ bridgeAllowance > 0
    /\ ~MutuallyReachable(map, points, 0)
    /\ MutuallyReachable(map, points, bridgeAllowance)
    /\ Len(findMST(map, points, bridgeAllowance, bridgeCost).paths) = MaxPoints - 1

\* the pairs of point indices between which findPathAStar finds a path
FoundPairs(grid, pts, bAllowance, bCost) ==
    { pr \in (1 .. Len(pts)) \X (1 .. Len(pts)) :
        pr[1] < pr[2]
        /\ findPathAStar(grid, pts[pr[1]], pts[pr[2]], bAllowance, bCost).found }

\* the indices joined to an index of S by a chain of pairs
RECURSIVE ChainClosure(_, _)
ChainClosure(pairs, S) ==
    LET more == { pr[2] : pr \in { q \in pairs : q[1] \in S } }
                  \cup { pr[1] : pr \in { q \in pairs : q[2] \in S } }
    IN IF more \subseteq S THEN S ELSE ChainClosure(pairs, S \cup more)

\* C19: the connected points findMST reports are exactly the points joined to
\* points[0] by a chain of pairwise found paths, and the disconnected points
\* exactly the others, so that the loop ends with no found path left between a
\* connected and a disconnected point.
C19_ComponentOfFirst ==
    Len(points) >= 2 =>
        \A r \in {findMST(map, points, bridgeAllowance, bridgeCost)} :
        \A pairs \in {FoundPairs(map, points, bridgeAllowance, bridgeCost)} :
        \A joined \in {ChainClosure(pairs, {1})} :
            /\ RangeOfPath(r.connectedPoints) = { points[i] : i \in joined }
            /\ RangeOfPath(r.disconnectedPoints) =
                 { points[i] : i \in (1 .. Len(points)) \ joined }
            /\ \A pr \in pairs :
                 points[pr[1]] \in RangeOfPath(r.connectedPoints)
                    <=> points[pr[2]] \in RangeOfPath(r.connectedPoints)

\* the second point placed is cut off, the third and fourth are joined to the
\* first
C19_Witness ==
    /\ Len(points) = MaxPoints
    /\ \A r \in {findMST(map, points, bridgeAllowance, bridgeCost)} :
         /\ r.disconnectedPoints = << points[2] >>
         /\ Len(r.connectedPoints) = MaxPoints - 1
         /\ Len(r.paths) = MaxPoints - 2

\* edge e joins an index of S to an index outside S
Crossing(e, S) == (e.from \in S) # (e.to \in S)

\* the indices in the tree before its k-th edge is chosen
InTreeBefore(mstEdges, k) ==
    {1} \cup { mstEdges[n].from : n \in 1 .. k - 1 } \cup { mstEdges[n].to : n \in 1 .. k - 1 }

\* total weight of the edges whose indices are in T
RECURSIVE SumCost(_, _)
SumCost(edges, T) ==
    IF T = {} THEN 0
    ELSE LET n == CHOOSE m \in T : TRUE IN edges[n].cost + SumCost(edges, T \ {n})

\* the sets of edge indices that are spanning trees of the indices comp
SpanningTrees(edges, comp) ==
    { T \in SUBSET (1 .. Len(edges)) :
        /\ Cardinality(T) = Cardinality(comp) - 1
        /\ ChainClosure({ <<edges[n].from, edges[n].to>> : n \in T }, {1}) = comp }

\* the tree Prim's loop builds on the points MSTRoads holds, with the edges
\* it chose from
TreeChosen(edges) ==
    [edges |-> edges, tree |-> Prim(edges, <<1>>, <<>>, Len(points))]

\* C20: each edge findMST adds crosses from the tree to a point outside it and
\* no crossing edge at that step has fewer cells, and the edges selected weigh
\* in total no more than any spanning tree of the component of points[0].
C20_MinimumSpanning ==
    Len(points) >= 2 =>
        \A c \in {TreeChosen(PairwiseEdges(map, points, 1, 2, bridgeAllowance, bridgeCost))} :
            /\ \A k \in 1 .. Len(c.tree.mstEdges) :
                 /\ c.tree.mstEdges[k].cost = Len(c.tree.mstEdges[k].path)
                 /\ Crossing(c.tree.mstEdges[k], InTreeBefore(c.tree.mstEdges, k))
                 /\ \A n \in 1 .. Len(c.edges) :
                      Crossing(c.edges[n], InTreeBefore(c.tree.mstEdges, k))
                         => c.tree.mstEdges[k].cost <= c.edges[n].cost
            /\ \A T \in SpanningTrees(c.edges, RangeOfPath(c.tree.inMST)) :
                 SumCost(c.tree.mstEdges, 1 .. Len(c.tree.mstEdges)) <= SumCost(c.edges, T)

\* the first edge pushed crosses at the first step and is passed over for a
\* lighter one, and a heavier spanning tree of all MaxPoints points exists
C20_Witness ==
    /\ Len(points) = MaxPoints
    /\ \A c \in {TreeChosen(PairwiseEdges(map, points, 1, 2, bridgeAllowance, bridgeCost))} :
         /\ Len(c.tree.inMST) = MaxPoints
         /\ c.edges[1].from = 1
         /\ c.tree.mstEdges[1].cost < c.edges[1].cost
         /\ \E T \in SpanningTrees(c.edges, RangeOfPath(c.tree.inMST)) :
              SumCost(c.tree.mstEdges, 1 .. Len(c.tree.mstEdges)) < SumCost(c.edges, T)

----------------------------------------------------------------------------
(* updateMSTWithNewPoint applied to what MSTRoads holds and a point that    *)
(* could be clicked next.                                                   *)

\* the points a click can add
Clickable == { c \in map.walk : ~Has(points, c) }

\* the paths findPathAStar finds from c to the points held
PathsFrom(c) ==
    { findPathAStar(map, c, points[n], bridgeAllowance, bridgeCost).path :
        n \in { m \in 1 .. Len(points) :
                  findPathAStar(map, c, points[m], bridgeAllowance, bridgeCost).found } }

TreeHeld == [paths |-> allMstTiles, disconnectedPoints |-> disconnectedPoints]

\* C21: for the k-th point updateMSTWithNewPoint calls findPathAStar k - 1
\* times, once from the new point to each point held and never between two
\* points held; what it returns begins with the segments it was given,
\* unchanged; it appends a path of the fewest cells among those found, or,
\* when none is found, appends nothing and puts the new point at the end of the
\* disconnected list.
C21_IncrementalContract ==
    (Len(points) >= 1 /\ Len(points) < MaxPoints) =>
        \A c \in Clickable :
        \A calls \in {CandidateCalls(points, c, 1)} :
        \A found \in {PathsFrom(c)} :
        \A r \in {updateMSTWithNewPoint(map, points, c, TreeHeld, bridgeAllowance,
                                        bridgeCost)} :
            /\ Len(calls) = Len(points)
            /\ \A n \in 1 .. Len(calls) : calls[n] = <<c, points[n]>>
            /\ r.paths[1] = allMstTiles
            /\ IF found = {}
               THEN /\ r.paths = << allMstTiles >>
                    /\ r.disconnectedPoints = Append(disconnectedPoints, c)
               ELSE /\ Len(r.paths) = 2
                    /\ r.paths[2] \in found
                    /\ \A path \in found : Len(r.paths[2]) <= Len(path)

\* a tree is held, and a click can add a point whose path to the first point
\* held is longer than its path to a later one
C21_Witness ==
    /\ Len(points) >= 2
    /\ Len(points) < MaxPoints
    /\ allMstTiles # <<>>
    /\ \E c \in Clickable :
         \A first \in {findPathAStar(map, c, points[1], bridgeAllowance, bridgeCost)} :
         \A r \in {updateMSTWithNewPoint(map, points, c, TreeHeld, bridgeAllowance,
                                         bridgeCost)} :
            /\ first.found
            /\ Len(r.paths) = 2
            /\ Len(r.paths[2]) < Len(first.path)

----------------------------------------------------------------------------
(* findPathAStar without bridging (grid2DUtil.ts, lines 75-145).  nodes is  *)
(* the arena of the NodeAStar objects (parent an arena index, 0 for none),  *)
(* openSet the array of arena indices, closedSet the Set of keys <<x, y>>.  *)

PlainStart(st, en) ==
    LET h == manhatten(st[1], en[1], st[2], en[2])
    IN [nodes |-> << [x |-> st[1], y |-> st[2], g |-> 0, h |-> h, f |-> 0 + h,
                      parent |-> 0] >>,
        openSet |-> <<1>>,
        closedSet |-> {},
        status |-> "running",
        found |-> FALSE,
        path |-> <<>>]

\* idx put into an array sorted by f, behind the entries of the same f
RECURSIVE InsertByF(_, _, _)
InsertByF(nodes, sorted, idx) ==
    IF sorted = <<>> THEN <<idx>>
    ELSE IF nodes[idx].f < nodes[Head(sorted)].f THEN <<idx>> \o sorted
    ELSE <<Head(sorted)>> \o InsertByF(nodes, Tail(sorted), idx)

\* openSet.sort((a, b) => a.f - b.f): the sort is stable
RECURSIVE SortByF(_, _, _)
SortByF(nodes, open, sorted) ==
    IF open = <<>> THEN sorted
    ELSE SortByF(nodes, Tail(open), InsertByF(nodes, sorted, Head(open)))

PlainSkipsClosedOnly(grid, closedSet, x, y) ==
    \/ ~InBounds(grid, x, y)
    \/ <<x, y>> \in closedSet

\* "Skip out-of-bounds, visited, or non-walkable tiles"
PlainSkips(grid, closedSet, x, y) ==
    \/ ~InBounds(grid, x, y)
    \/ <<x, y>> \in closedSet
    \/ ~Walkable(grid, x, y)

\* openSet.find((n) => n.x === x && n.y === y): the arena index, 0 for undefined
RECURSIVE PlainFind(_, _, _, _)
PlainFind(nodes, open, x, y) ==
    IF open = <<>> THEN 0
    ELSE IF nodes[Head(open)].x = x /\ nodes[Head(open)].y = y THEN Head(open)
    ELSE PlainFind(nodes, Tail(open), x, y)

\* one pass of the body of "for (const { x, y } of neighbors)"
PlainRelax(grid, en, s, curIdx, nb) ==
    LET x == nb[1]
        y == nb[2]
        g == s.nodes[curIdx].g + 1
        h == manhatten(x, en[1], y, en[2])
        f == g + h
        existing == PlainFind(s.nodes, s.openSet, x, y)
    IN IF PlainSkips(grid, s.closedSet, x, y) THEN s
       ELSE IF existing # 0
       THEN IF g < s.nodes[existing].g
            THEN [s EXCEPT !.nodes[existing].g = g,
                           !.nodes[existing].f = f,
                           !.nodes[existing].parent = curIdx]
            ELSE s
       ELSE [s EXCEPT !.nodes = Append(@, [x |-> x, y |-> y, g |-> g, h |-> h, f |-> f,
                                           parent |-> curIdx]),
                      !.openSet = Append(@, Len(s.nodes) + 1)]

RECURSIVE PlainRelaxAll(_, _, _, _, _, _)
PlainRelaxAll(grid, en, s, curIdx, nbs, i) ==
    IF i > Len(nbs) THEN s
    ELSE PlainRelaxAll(grid, en, PlainRelax(grid, en, s, curIdx, nbs[i]), curIdx, nbs, i + 1)

\* one pass of "while (openSet.length > 0)", or the return null after it
PlainLoop(grid, en, s) ==
    IF s.openSet = <<>> THEN [s EXCEPT !.status = "done", !.found = FALSE]
    ELSE LET sorted == SortByF(s.nodes, s.openSet, <<>>)
             curIdx == Head(sorted)
             current == s.nodes[curIdx]
             shifted == [s EXCEPT !.openSet = Tail(sorted)]
         IN IF current.x = en[1] /\ current.y = en[2]
            THEN [shifted EXCEPT !.status = "done", !.found = TRUE,
                                 !.path = ReconstructPath(s.nodes, curIdx)]
            ELSE PlainRelaxAll(grid, en,
                               [shifted EXCEPT !.closedSet = @ \cup {<<current.x, current.y>>}],
                               curIdx, Neighbors(current.x, current.y), 1)

RECURSIVE PlainRun(_, _, _)
PlainRun(grid, en, s) ==
    IF s.status = "done" THEN s ELSE PlainRun(grid, en, PlainLoop(grid, en, s))

\* the value the plain findPathAStar returns: [found, path], found = FALSE for null
findPathAStarPlain(grid, st, en) ==
    LET s == PlainRun(grid, en, PlainStart(st, en))
    IN [found |-> s.found, path |-> s.path]

\* C22: with bridgeSteps = 0 and bridgeCost = 0 the bridging findPathAStar
\* returns null exactly when the plain findPathAStar returns null, and
\* otherwise a path of as many cells as the plain one's, every cell of which
\* after the first is walkable.
C22_DefaultsArePlain ==
    (Done /\ bridgeSteps = 0 /\ bridgeCost = 0) =>
        \A plain \in {findPathAStarPlain(map, start, end)} :
            /\ search.found <=> plain.found
            /\ search.found =>
                 /\ Len(search.path) = Len(plain.path)
                 /\ \A i \in 2 .. Len(search.path) : search.path[i] \in map.walk

\* both searches go around obstacles: the path is longer than the straight
\* distance between its ends
C22_Witness ==
    /\ Done
    /\ bridgeSteps = 0
    /\ bridgeCost = 0
    /\ search.found
    /\ Len(search.path) > manhatten(start[1], end[1], start[2], end[2]) + 1
    /\ Len(findPathAStarPlain(map, start, end).path) = Len(search.path)

----------------------------------------------------------------------------
(* The cost at which a state <<cell, bridges used>> is closed.               *)

\* as LevelCost, for the state target instead of the cell en
RECURSIVE LevelCostTo(_, _, _, _, _, _, _)
LevelCostTo(grid, target, bSteps, bCost, levels, seen, c) ==
    LET walk == IF c >= 1 THEN WalkFrom(grid, levels[c]) ELSE {}
        bridge == IF bCost >= 1 /\ c >= bCost
                  THEN BridgeFrom(grid, bSteps, levels[c - bCost + 1]) ELSE {}
        level == FreeClosure(grid, bSteps, bCost, (walk \cup bridge) \ seen, seen)
        window == IF bCost >= 1 THEN bCost ELSE 1
        stalled == /\ level = {}
                   /\ \A i \in 1 .. window - 1 : c - i >= 0 => levels[c - i + 1] = {}
    IN IF target \in level THEN c
       ELSE IF stalled THEN NoCost
       ELSE LevelCostTo(grid, target, bSteps, bCost, Append(levels, level),
                        seen \cup level, c + 1)

\* least total cost of a route from st that ends on the cell target[1] having
\* stepped onto exactly target[2] non-walkable cells; NoCost when there is none
StateCost(grid, st, target, bSteps, bCost) ==
    LET first == FreeClosure(grid, bSteps, bCost, { <<st, 0>> }, {})
    IN IF target \in first THEN 0
       ELSE LevelCostTo(grid, target, bSteps, bCost, <<first>>, first, 1)

\* the node the next pass of the loop pops and closes
Closing == search.status = "running" /\ LoopCase(end, search) \in {"goal", "expand"}

\* C23: the state the loop pops and closes has not been closed before, and its
\* g is the least cost of any route from start to that state, for every
\* bridgeCost >= 0.
C23_ClosedIsFinal ==
    Closing =>
        \A current \in {search.nodes[HeapMin(search.openSet)]} :
            /\ makeKey(current.x, current.y, current.bridgesUsed) \notin search.closedSet
            /\ current.g = StateCost(map, start, <<<<current.x, current.y>>, current.bridgesUsed>>,
                                     bridgeSteps, bridgeCost)

\* the same for bridgeCost >= 1
C23_ClosedIsFinalPaid == bridgeCost >= 1 => C23_ClosedIsFinal

----------------------------------------------------------------------------
(* The steps of the path planned next, before it is padded at the goal.     *)

\* C24: in the path planPathWithReservations returns, every step from
\* timestep t to t + 1 up to the arrival at the goal is a wait in the same cell
\* or a move to a 4-neighbour that is in the grid and walkable; the cell
\* entered is not reserved at t + 1, and no move from a to b is made while the
\* move b -> a is reserved at t.
C24_LegalSteps ==
    Planning =>
        \A s \in {NextSearch} :
            s.found =>
                \A t \in 0 .. FirstAt(s.path, agents[play.i].goal, 0) - 1 :
                \A a \in {CellAt(s.path, t)} :
                \A b \in {CellAt(s.path, t + 1)} :
                    /\ \/ a = b
                       \/ /\ Abs(a[1] - b[1]) + Abs(a[2] - b[2]) = 1
                          /\ b \in CellsOf(map.w, map.h)
                          /\ b \in map.walk
                    /\ <<t + 1, b>> \notin Holds(play.reservations.vertex)
                    /\ a # b => <<t, <<b, a>> >> \notin Holds(play.reservations.edge)

\* the path planned next arrives later than the distance to its goal, because
\* of the paths already reserved, and both waits and moves on the way
C24_Witness ==
    /\ Planning
    /\ play.plannedPaths # <<>>
    /\ \A s \in {NextSearch} :
         /\ s.found
         /\ \A arrival \in {FirstAt(s.path, agents[play.i].goal, 0)} :
              /\ arrival > manhattan(agents[play.i].start, agents[play.i].goal)
              /\ \E t \in 0 .. arrival - 1 : CellAt(s.path, t) = CellAt(s.path, t + 1)
              /\ \E t \in 0 .. arrival - 1 : CellAt(s.path, t) # CellAt(s.path, t + 1)

----------------------------------------------------------------------------
(* Parent links of the search nodes.                                        *)

\* node n of the arena is not the start node
Child(n) == n \in 2 .. Len(search.nodes)

\* parent links lead from every node to the start node, through nodes created
\* earlier, and a returned path begins at start
RootedAtStart ==
    /\ search.nodes[1].parent = 0
    /\ <<search.nodes[1].x, search.nodes[1].y>> = start
    /\ \A n \in 1 .. Len(search.nodes) :
         Child(n) => search.nodes[n].parent \in 1 .. n - 1
    /\ (Done /\ search.found) => search.path[1] = start

\* C25 as stated: every node other than the start node has a parent with a
\* strictly smaller g, so that the links form a tree rooted at the start node
\* and reconstruction ends there.
C25_Stated ==
    search.status # "none" =>
        /\ \A n \in 1 .. Len(search.nodes) :
             Child(n) => search.nodes[search.nodes[n].parent].g < search.nodes[n].g
        /\ RootedAtStart

\* C25 amended: every node other than the start node has a parent, created
\* before it, whose g is smaller by the cost of the step: strictly smaller for
\* a step onto a walkable cell or when bridgeCost >= 1, equal for a step onto a
\* non-walkable cell when bridgeCost = 0; the links form a tree rooted at the
\* start node and reconstruction ends there.
C25_ParentTree ==
    search.status # "none" =>
        /\ \A n \in 1 .. Len(search.nodes) :
             Child(n) =>
                 search.nodes[n].g =
                     search.nodes[search.nodes[n].parent].g
                       + (IF <<search.nodes[n].x, search.nodes[n].y>> \in map.walk
                          THEN 1 ELSE bridgeCost)
        /\ RootedAtStart

\* a returned path that crosses a non-walkable cell at no cost: the node of
\* that cell has the g of its parent
C25_Witness ==
    /\ Done
    /\ search.found
    /\ bridgeCost = 0
    /\ BridgesOn(map, search.path) >= 1
    /\ \E n \in 1 .. Len(search.nodes) :
         Child(n) /\ search.nodes[search.nodes[n].parent].g = search.nodes[n].g

----------------------------------------------------------------------------
(* Dominance between states of one cell.                                    *)

\* node m was discovered before node n, at the same cell, with no more
\* bridges used and a lower g
Dominates(m, n) ==
    /\ m < n
    /\ search.nodes[m].x = search.nodes[n].x
    /\ search.nodes[m].y = search.nodes[n].y
    /\ search.nodes[m].bridgesUsed <= search.nodes[n].bridgesUsed
    /\ search.nodes[m].g < search.nodes[n].g

\* C26: no node is created and pushed for a neighbour state (x, y, b) with cost
\* g when a state at the same (x, y) with bridgesUsed <= b and lower g has
\* already been discovered.
C26_Dominance ==
    search.status # "none" =>
        \A m, n \in 1 .. Len(search.nodes) : ~Dominates(m, n)

\* the same between two nodes of one key (x, y, bridgesUsed)
C26_SameKeyDominance ==
    search.status # "none" =>
        \A m, n \in 1 .. Len(search.nodes) :
            search.nodes[m].bridgesUsed = search.nodes[n].bridgesUsed => ~Dominates(m, n)

----------------------------------------------------------------------------
(* Which branch the effect of MSTRoads takes when a point is added.         *)

\* a tree is shown and one more point can be clicked
TreeExists ==
    /\ Len(points) >= 2
    /\ allMstTiles # <<>>
    /\ Len(points) < MaxPoints
    /\ Clickable # {}

\* C27: when a point is added while a tree exists, with the bridge allowance
\* and bridge cost as they were, the effect extends the tree with
\* updateMSTWithNewPoint and does not run findMST.
C27_ExtendsOnAdd ==
    TreeExists => ~Recomputes(bridgeAllowance, bridgeCost)

----------------------------------------------------------------------------
(* The timestep at which the path planned next arrives.                     *)

\* the first timestep >= t at which a sequence of waits and moves from the
\* cells S an agent may be in at t is at goal; NoCost when none is by horizon
RECURSIVE EarliestArrival(_, _, _, _, _, _)
EarliestArrival(grid, res, S, t, goal, horizon) ==
    IF goal \in S THEN t
    ELSE IF t >= horizon \/ S = {} THEN NoCost
    ELSE EarliestArrival(grid, res, UNION { StepTargets(grid, res, c, t) : c \in S },
                         t + 1, goal, horizon)

\* C28: the path planPathWithReservations returns first reaches the goal at
\* the earliest timestep at which any sequence of waits and moves that respects
\* walkability and the reservations can; with an empty table that timestep is
\* the shortest walkable 4-connected distance from start to goal, whenever that
\* distance is <= H.
C28_EarliestArrival ==
    Planning =>
        \A s \in {NextSearch} :
        \A a \in {agents[play.i]} :
            /\ s.found =>
                 FirstAt(s.path, a.goal, 0)
                    = EarliestArrival(map, play.reservations, {a.start}, 0, a.goal, HORIZON)
            /\ play.reservations = cloneReservations =>
                 \A d \in {OptCost(map, a.start, a.goal, 0, 1)} :
                     (d # NoCost /\ d <= HORIZON) =>
                         s.found /\ FirstAt(s.path, a.goal, 0) = d

\* the earliest arrival is put off by the paths reserved: it is later than the
\* walkable distance, which the agent would need on an empty table
C28_Witness ==
    /\ Planning
    /\ play.plannedPaths # <<>>
    /\ \A s \in {NextSearch} :
         /\ s.found
         /\ FirstAt(s.path, agents[play.i].goal, 0)
              > OptCost(map, agents[play.i].start, agents[play.i].goal, 0, 1)
         /\ OptCost(map, agents[play.i].start, agents[play.i].goal, 0, 1) >= 1

----------------------------------------------------------------------------
(* findPathAStar in the two directions between a pair of walkable cells.    *)

\* the search from end to start, with the bridging parameters of the search
\* from start to end
Reverse == findPathAStar(map, end, start, bridgeSteps, bridgeCost)

\* C29: for walkable start and end, bridgeSteps >= 0 and bridgeCost >= 0,
\* findPathAStar(start, end) is null exactly when findPathAStar(end, start) is
\* null, and when both return a path the two paths have equal total cost.
C29_Symmetric ==
    Done =>
        \A back \in {Reverse} :
            /\ search.found <=> back.found
            /\ search.found =>
                 PathCost(map, bridgeCost, search.path) = PathCost(map, bridgeCost, back.path)

\* the same for bridgeCost >= 1
C29_SymmetricPaid == bridgeCost >= 1 => C29_Symmetric

\* the two directions are null together, for every bridgeCost
C29_NullTogether == Done => (search.found <=> Reverse.found)

\* the two directions return paths of as many cells (the weight findMST and
\* updateMSTWithNewPoint give an edge)
C29_SameLength == (Done /\ search.found) => Len(search.path) = Len(Reverse.path)

----------------------------------------------------------------------------
(* The pending start/goal selection of MultiAgent.                          *)

\* C30: a non-null selectingAgents names the id of an agent in the agents
\* list, so that clicks on walkable tiles complete the selection and Add Agent
\* is enabled again.
C30_SelectionHasAgent ==
    selectingAgents # NoSelection =>
        \E i \in 1 .. Len(agents) : agents[i].id = selectingAgents.agentId

====
